---- MODULE Spec2Model ----
(***************************************************************************)
(* Model of the parse / validate pipeline of PromptToProduct:             *)
(*   SpecParser    (src/src/spec-parser.js)                                *)
(*   SpecValidator (src/unnamed/part_008, i.e. src/spec-validator.js)      *)
(*                                                                         *)
(* A JavaScript string is a sequence of one-character strings, so that     *)
(* split, includes, match, length and toLowerCase are computed character   *)
(* by character.  The YAML decoder is an external library: a content       *)
(* carries, next to its text, the outcome the decoder has on it.           *)
(***************************************************************************)
EXTENDS Integers, Sequences, FiniteSets, TLC

VARIABLES content, filename, vres, pres, gres, calls, cli, scan

vars == <<content, filename, vres, pres, gres, calls, cli, scan>>

(***************************************************************************)
(* Bounds                                                                  *)
(***************************************************************************)
\* total number of list entries (requirements and test cases) of a YAML document
MaxItems == 3
\* number of lines of a Markdown content (before padding)
MaxLines == 3
\* calls of generate on one specification
MaxCalls == 2

(***************************************************************************)
(* Strings                                                                 *)
(***************************************************************************)
\* the value of an expression, as the element of the one-element set {expression}: a
\* chain of calls a.b().c() is written with each intermediate value bound once
Only(S) == CHOOSE v \in S : TRUE

\* String.prototype.toLowerCase, character by character
LowerOf(c) ==
  CASE c = "A" -> "a" [] c = "B" -> "b" [] c = "C" -> "c" [] c = "D" -> "d" [] c = "E" -> "e"
    [] c = "F" -> "f" [] c = "G" -> "g" [] c = "H" -> "h" [] c = "I" -> "i" [] c = "J" -> "j"
    [] c = "K" -> "k" [] c = "L" -> "l" [] c = "M" -> "m" [] c = "N" -> "n" [] c = "O" -> "o"
    [] c = "P" -> "p" [] c = "Q" -> "q" [] c = "R" -> "r" [] c = "S" -> "s" [] c = "T" -> "t"
    [] c = "U" -> "u" [] c = "V" -> "v" [] c = "W" -> "w" [] c = "X" -> "x" [] c = "Y" -> "y"
    [] c = "Z" -> "z"
    [] OTHER -> c

toLowerCase(s) == [i \in 1..Len(s) |-> LowerOf(s[i])]

\* positions of the separator character c in s
Positions(s, c) == {i \in 1..Len(s) : s[i] = c}

\* s.split(c).pop(): the text after the last c, the whole of s when c does not occur
SplitPop(s, c) ==
  IF Positions(s, c) = {} THEN s
  ELSE LET last == CHOOSE i \in Positions(s, c) : \A j \in Positions(s, c) : j <= i
       IN SubSeq(s, last + 1, Len(s))

\* the pattern p occurs in s at position i
At(s, i, p) == i >= 1 /\ i + Len(p) - 1 <= Len(s) /\ SubSeq(s, i, i + Len(p) - 1) = p

\* s.includes(p)
Includes(s, p) == \E i \in 1..(Len(s) - Len(p) + 1) : At(s, i, p)

\* s.startsWith(p)
StartsWith(s, p) == At(s, 1, p)

\* s.split(c): the pieces of s between the occurrences of the character c
RECURSIVE Split(_, _)
Split(s, c) ==
  IF Positions(s, c) = {} THEN <<s>>
  ELSE LET first == CHOOSE i \in Positions(s, c) : \A j \in Positions(s, c) : i <= j
       IN <<SubSeq(s, 1, first - 1)>> \o Split(SubSeq(s, first + 1, Len(s)), c)

\* pieces.join(c)
RECURSIVE Join(_, _)
Join(pieces, c) ==
  IF pieces = <<>> THEN <<>>
  ELSE IF Len(pieces) = 1 THEN pieces[1]
  ELSE pieces[1] \o <<c>> \o Join(Tail(pieces), c)

IsDigit(c) == c \in {"0", "1", "2", "3", "4", "5", "6", "7", "8", "9"}
IsSpace(c) == c \in {" ", "\t", "\n", "\r"}
\* the regular expression's `.`: any character but a line terminator
IsDot(c) == c \notin {"\n", "\r"}

\* s.trim()
Trim(s) ==
  LET solid == {i \in 1..Len(s) : ~IsSpace(s[i])} IN
  IF solid = {} THEN <<>>
  ELSE LET lo == CHOOSE i \in solid : \A j \in solid : i <= j
           hi == CHOOSE i \in solid : \A j \in solid : j <= i
       IN SubSeq(s, lo, hi)

\* the character classes of the regular expressions: \d, \s and .
InClass(cls, c) ==
  CASE cls = "digit" -> IsDigit(c)
    [] cls = "space" -> IsSpace(c)
    [] OTHER -> IsDot(c)

\* the longest run of characters of a class, from position p on: its last position
RunEnd(s, p, cls) ==
  LET stops == {i \in p..Len(s) : ~InClass(cls, s[i])} IN
  IF stops = {} THEN Len(s)
  ELSE (CHOOSE i \in stops : \A j \in stops : i <= j) - 1

(***************************************************************************)
(* Messages: a template literal `<pre>${arg}<post>`                        *)
(***************************************************************************)
Msg(pre, arg, post) == <<pre, arg, post>>
NoError == <<>>

\* the undefined value of an absent field; no string equals it
Undefined == <<"undefined-value">>
Empty == <<>>
Falsy(v) == v = Undefined \/ v = Empty

(***************************************************************************)
(* Decoded YAML values.  Every value carries a tag t; a field that the     *)
(* document does not have is undefined.                                    *)
(***************************************************************************)
\* a list-valued field: undefined, a number (truthy, no forEach, not iterable) or a list
NoList == [t |-> "undefined", items |-> <<>>]
NumberValue == [t |-> "number", items |-> <<>>]
ListOf(items) == [t |-> "list", items |-> items]

\* the requirements field: undefined, a truthy non-mapping, or a mapping
NoReqs == [t |-> "undefined", functional |-> NoList, non_functional |-> NoList]
OtherReqs == [t |-> "other", functional |-> NoList, non_functional |-> NoList]
ReqsOf(f, nf) == [t |-> "map", functional |-> f, non_functional |-> nf]

\* a document that is not a mapping has none of the fields
NonMapDoc(tag) == [t |-> tag, name |-> Undefined, description |-> Undefined,
                   requirements |-> NoReqs, test_cases |-> NoList]
NullDoc == NonMapDoc("null")

\* YAML.parse(content): the decoder's outcome on the content's text
YAMLparse(c) == c.yaml
Decoded(doc) == [threw |-> FALSE, message |-> "", value |-> doc]
DecodeFailure(m) == [threw |-> TRUE, message |-> m, value |-> NullDoc]

\* TypeError raised by reading a property of null
TypeErrorNull(prop) == <<"Cannot read properties of null (reading '", prop, "')">>
TypeErrorNotIterable == <<"spec.requirements is not iterable">>
TypeErrorNoForEach == <<"spec.test_cases.forEach is not a function">>

(***************************************************************************)
(* SpecValidator                                                           *)
(*   r is the result object under construction; r.exc is the exception in  *)
(*   flight (NoError when there is none).                                  *)
(***************************************************************************)
NewResult == [valid |-> TRUE, errors |-> <<>>, warnings |-> <<>>, exc |-> NoError]

Throw(r, m) == [r EXCEPT !.exc = m]
\* variant: the error is appended and valid is left as it was
AddErrorOnly(r, m) == [r EXCEPT !.errors = Append(@, m)]

AddError(r, m) == [r EXCEPT !.errors = Append(@, m), !.valid = FALSE]
AddWarning(r, m) == [r EXCEPT !.warnings = Append(@, m)]

\* if (!spec.name) ...
CheckName(spec, r) ==
  IF spec.t = "null" THEN Throw(r, TypeErrorNull("name"))
  ELSE IF Falsy(spec.name) THEN AddError(r, Msg("Missing required field: name", <<>>, ""))
  ELSE r

\* if (!spec.description) ...
CheckDescription(spec, r) ==
  IF Falsy(spec.description) THEN AddWarning(r, Msg("Missing description field", <<>>, ""))
  ELSE r

\* if (!spec.requirements) ... else if (!functional || functional.length === 0) ...
CheckRequirementsPresent(spec, r) ==
  IF spec.requirements.t = "undefined" THEN AddWarning(r, Msg("No requirements defined", <<>>, ""))
  ELSE IF \/ spec.requirements.functional.t = "undefined"
          \/ /\ spec.requirements.functional.t = "list"
             /\ Len(spec.requirements.functional.items) = 0
       THEN AddWarning(r, Msg("No functional requirements defined", <<>>, ""))
  ELSE r

\* variant: the id is added to the Set before the Set is consulted
RECURSIVE ForEachRequirementAddFirst(_, _, _)
ForEachRequirementAddFirst(reqs, ids, r) ==
  IF reqs = <<>> THEN r
  ELSE LET req == Head(reqs) IN
       IF req.t = "null" THEN Throw(r, TypeErrorNull("id"))
       ELSE IF Falsy(req.id)
            THEN ForEachRequirementAddFirst(Tail(reqs), ids,
                   AddError(r, Msg("Requirement missing ID", <<>>, "")))
       ELSE ForEachRequirementAddFirst(Tail(reqs), ids \cup {req.id},
              AddError(r, Msg("Duplicate requirement ID: ", req.id, "")))

\* allRequirements.forEach(req => ...), ids being the Set of the ids seen
RECURSIVE ForEachRequirement(_, _, _)
ForEachRequirement(reqs, ids, r) ==
  IF reqs = <<>> THEN r
  ELSE LET req == Head(reqs) IN
       IF req.t = "null" THEN Throw(r, TypeErrorNull("id"))
       ELSE IF Falsy(req.id)
            THEN ForEachRequirement(Tail(reqs), ids,
                                    AddError(r, Msg("Requirement missing ID", <<>>, "")))
       ELSE IF req.id \in ids
            THEN ForEachRequirement(Tail(reqs), ids,
                                    AddError(r, Msg("Duplicate requirement ID: ", req.id, "")))
       ELSE ForEachRequirement(Tail(reqs), ids \cup {req.id}, r)

\* variant: only the functional bucket is checked
AllRequirementsFunctionalOnly(reqs) == reqs.functional.items

\* [...(functional || []), ...(non_functional || [])]
AllRequirements(reqs) == reqs.functional.items \o reqs.non_functional.items

\* if (spec.requirements) { ... }
CheckRequirementIds(spec, r) ==
  IF spec.requirements.t = "undefined" THEN r
  ELSE IF \/ spec.requirements.functional.t = "number"
          \/ spec.requirements.non_functional.t = "number"
       THEN Throw(r, TypeErrorNotIterable)
  ELSE ForEachRequirement(AllRequirements(spec.requirements), {}, r)

\* `${tc.id || index}`
IdOrIndex(tc, index) == IF Falsy(tc.id) THEN <<ToString(index)>> ELSE tc.id

\* variant: the reported position is one-based
TestCaseMissingIdOneBased(tc, index, r) ==
  IF Falsy(tc.id)
  THEN AddError(r, Msg("Test case at index ", <<ToString(index + 1)>>, " missing ID"))
  ELSE r

TestCaseMissingId(tc, index, r) ==
  IF Falsy(tc.id) THEN AddError(r, Msg("Test case at index ", <<ToString(index)>>, " missing ID"))
  ELSE r

TestCaseMissingDescription(tc, index, r) ==
  IF Falsy(tc.description)
  THEN AddWarning(r, Msg("Test case ", IdOrIndex(tc, index), " missing description"))
  ELSE r

TestCaseMissingExpected(tc, index, r) ==
  IF Falsy(tc.expected_result)
  THEN AddWarning(r, Msg("Test case ", IdOrIndex(tc, index), " missing expected result"))
  ELSE r

\* spec.test_cases.forEach((tc, index) => ...), from index on
RECURSIVE ForEachTestCase(_, _, _)
ForEachTestCase(tcs, index, r) ==
  IF index >= Len(tcs) THEN r
  ELSE LET tc == tcs[index + 1] IN
       IF tc.t = "null" THEN Throw(r, TypeErrorNull("id"))
       ELSE ForEachTestCase(tcs, index + 1,
              TestCaseMissingExpected(tc, index,
                TestCaseMissingDescription(tc, index,
                  TestCaseMissingId(tc, index, r))))

\* if (spec.test_cases) { ... } else { ... }
CheckTestCases(spec, r) ==
  IF spec.test_cases.t = "undefined" THEN AddWarning(r, Msg("No test cases defined", <<>>, ""))
  ELSE IF spec.test_cases.t = "number" THEN Throw(r, TypeErrorNoForEach)
  ELSE ForEachTestCase(spec.test_cases.items, 0, r)

\* variant: the handler only covers the decoder's own error, a TypeError escapes
CatchDecoderErrorOnly(r) ==
  IF r.exc = NoError THEN r
  ELSE IF r.exc \in {TypeErrorNull("name"), TypeErrorNull("id"),
                     TypeErrorNotIterable, TypeErrorNoForEach}
  THEN r
  ELSE [r EXCEPT !.errors = Append(@, Msg("Invalid YAML: ", r.exc, "")),
                 !.valid = FALSE, !.exc = NoError]

\* catch (error) { result.valid = false; result.errors.push(`Invalid YAML: ...`) }
CatchInvalidYAML(r) ==
  IF r.exc = NoError THEN r
  ELSE [AddError(r, Msg("Invalid YAML: ", r.exc, "")) EXCEPT !.exc = NoError]

\* the statements of the try block, each run only while no exception is in flight
TryBlock(c, r) ==
  LET d  == YAMLparse(c)
      r0 == IF d.threw THEN Throw(r, <<d.message>>) ELSE r
      r1 == IF r0.exc # NoError THEN r0 ELSE CheckName(d.value, r0)
      r2 == IF r1.exc # NoError THEN r1 ELSE CheckDescription(d.value, r1)
      r3 == IF r2.exc # NoError THEN r2 ELSE CheckRequirementsPresent(d.value, r2)
      r4 == IF r3.exc # NoError THEN r3 ELSE CheckRequirementIds(d.value, r3)
      r5 == IF r4.exc # NoError THEN r4 ELSE CheckTestCases(d.value, r4)
  IN r5

validateYAML(c, r) == CatchInvalidYAML(TryBlock(c, r))

(***************************************************************************)
(* validateMarkdown: text heuristics on the raw content                    *)
(***************************************************************************)
SectionOverview == <<"#", "#", " ", "O", "v", "e", "r", "v", "i", "e", "w">>
SectionRequirements ==
  <<"#", "#", " ", "R", "e", "q", "u", "i", "r", "e", "m", "e", "n", "t", "s">>
SectionTestCases == <<"#", "#", " ", "T", "e", "s", "t", " ", "C", "a", "s", "e", "s">>
requiredSections == <<SectionOverview, SectionRequirements, SectionTestCases>>

\* requiredSections.filter(section => !content.includes(section)).forEach(push warning)
RECURSIVE MissingSections(_, _, _)
MissingSections(text, sections, r) ==
  IF sections = <<>> THEN r
  ELSE MissingSections(text, Tail(sections),
         IF Includes(text, Head(sections)) THEN r
         ELSE AddWarning(r, Msg("Missing recommended section: ", Head(sections), "")))

\* content.length < 100
ShortLimit == 100
\* variant: a content of exactly the limit counts as short
TooShortInclusive(text, r) ==
  IF Len(text) <= ShortLimit
  THEN AddWarning(r, Msg("Specification seems incomplete (very short)", <<>>, ""))
  ELSE r

TooShort(text, r) ==
  IF Len(text) < ShortLimit
  THEN AddWarning(r, Msg("Specification seems incomplete (very short)", <<>>, ""))
  ELSE r

\* content.match(/\*\*FR-\d+\*\*/)
MatchFRMarker(text) ==
  \E i \in 1..Len(text) :
    /\ At(text, i, <<"*", "*", "F", "R", "-">>)
    /\ \E j \in (i + 5)..Len(text) :
         /\ \A k \in (i + 5)..j : IsDigit(text[k])
         /\ At(text, j + 1, <<"*", "*">>)

\* content.match(/\*\*ID\*\*:\s*TC-\d+/)
MatchTCMarker(text) ==
  \E i \in 1..Len(text) :
    /\ At(text, i, <<"*", "*", "I", "D", "*", "*", ":">>)
    /\ \E j \in (i + 7)..Len(text) :
         /\ \A k \in (i + 7)..(j - 1) : IsSpace(text[k])
         /\ At(text, j, <<"T", "C", "-">>)
         /\ j + 3 <= Len(text)
         /\ IsDigit(text[j + 3])

\* variant: a document without a requirement marker is rejected
NoFRFoundAsError(text, r) ==
  IF ~MatchFRMarker(text)
  THEN AddError(r, Msg("No functional requirements found", <<>>, ""))
  ELSE r

NoFRFound(text, r) ==
  IF ~MatchFRMarker(text)
  THEN AddWarning(r, Msg("No functional requirements found", <<>>, ""))
  ELSE r

NoTCFound(text, r) ==
  IF ~MatchTCMarker(text)
  THEN AddWarning(r, Msg("No test cases found", <<>>, ""))
  ELSE r

validateMarkdown(c, r) ==
  NoTCFound(c.text, NoFRFound(c.text, TooShort(c.text, MissingSections(c.text, requiredSections, r))))

(***************************************************************************)
(* validate(content, filename) and parse(content, filename)                *)
(***************************************************************************)
ExtYaml == <<"y", "a", "m", "l">>
ExtYml == <<"y", "m", "l">>
ExtMd == <<"m", "d">>

\* variant: the extension is compared as written, upper-case letters included
ValidateExtCaseSensitive(f) == SplitPop(f, ".")

\* SpecValidator.validate: const ext = filename.split('.').pop().toLowerCase()
ValidateExt(f) == toLowerCase(SplitPop(f, "."))

UnsupportedFormat(ext) == Msg("Unsupported file format: ", ext, "")

\* the outcome of a call: it returned a value, or an exception left it
Pending == [status |-> "pending", result |-> NewResult, error |-> NoError]
Outcome(r) ==
  IF r.exc # NoError
  THEN [status |-> "threw", result |-> NewResult, error |-> r.exc]
  ELSE [status |-> "returned", result |-> r, error |-> NoError]

validate(c, f) ==
  LET ext == ValidateExt(f) IN
  IF ext = ExtYaml \/ ext = ExtYml THEN Outcome(validateYAML(c, NewResult))
  ELSE IF ext = ExtMd THEN Outcome(validateMarkdown(c, NewResult))
  ELSE Outcome(AddError(NewResult, UnsupportedFormat(ext)))

(***************************************************************************)
(* SpecParser                                                              *)
(***************************************************************************)
\* parseYAML: the decoded value, or Error(`Failed to parse YAML: ${error.message}`)
FailedToParse(m) == Msg("Failed to parse YAML: ", <<m>>, "")

\* variant: a decoding failure is swallowed and an empty document returned
parseYAMLSwallow(c) ==
  [status |-> "returned", path |-> "yaml", value |-> YAMLparse(c).value, error |-> NoError]

parseYAML(c) ==
  LET d == YAMLparse(c) IN
  IF d.threw THEN [status |-> "threw", path |-> "yaml", value |-> NullDoc,
                   error |-> FailedToParse(d.message)]
  ELSE [status |-> "returned", path |-> "yaml", value |-> d.value, error |-> NoError]

\* variant: the object starts with a name and a description
EmptySpecUntitled ==
  [name |-> <<"U", "n", "t", "i", "t", "l", "e", "d">>, description |-> <<"-">>,
   requirements |-> [functional |-> <<>>, non_functional |-> <<>>],
   user_stories |-> <<>>, test_cases |-> <<>>]

\* the object parseMarkdown starts from
EmptySpec == [name |-> Empty, description |-> Empty,
              requirements |-> [functional |-> <<>>, non_functional |-> <<>>],
              user_stories |-> <<>>, test_cases |-> <<>>]

\* an item created by parseMarkdown; a field the item does not have is undefined
NewRequirement(id, description) ==
  [id |-> id, description |-> description, priority |-> <<"m", "e", "d", "i", "u", "m">>,
   status |-> <<"p", "l", "a", "n", "n", "e", "d">>,
   steps |-> Undefined, expected_result |-> Undefined]
NewTestCase(id) ==
  [id |-> id, description |-> Empty, priority |-> Undefined, status |-> Undefined,
   steps |-> <<>>, expected_result |-> Empty]

\* currentItem is a reference to an object that sits in one of the two arrays
NullItem == [kind |-> "null", index |-> 0]

\* line.match(/\*\*FR-(\d+)\*\*:\s*(.+)/): the leftmost match, as <<digits, text>>, or <<>>
FRMatchAt(line, i) ==
  IF ~At(line, i, <<"*", "*", "F", "R", "-">>) THEN <<>>
  ELSE LET j == RunEnd(line, i + 5, "digit")
           p == j + 4
           w == RunEnd(line, p, "space") - p + 1
           ks == {k \in 0..w : p + k <= Len(line) /\ IsDot(line[p + k])}
       IN IF j < i + 5 \/ ~At(line, j + 1, <<"*", "*", ":">>) \/ ks = {} THEN <<>>
          ELSE LET k == CHOOSE x \in ks : \A y \in ks : y <= x
               IN <<SubSeq(line, i + 5, j), SubSeq(line, p + k, RunEnd(line, p + k, "dot"))>>

FRMatch(line) ==
  LET hits == {i \in 1..Len(line) : FRMatchAt(line, i) # <<>>} IN
  IF hits = {} THEN <<>>
  ELSE Only({FRMatchAt(line, i) : i \in {x \in hits : \A y \in hits : x <= y}})

\* line.match(/\*\*ID\*\*:\s*TC-(\d+)/): the leftmost match, as <<digits>>, or <<>>
TCMatchAt(line, i) ==
  IF ~At(line, i, <<"*", "*", "I", "D", "*", "*", ":">>) THEN <<>>
  ELSE LET q == RunEnd(line, i + 7, "space") + 1
           j == RunEnd(line, q + 3, "digit")
       IN IF ~At(line, q, <<"T", "C", "-">>) \/ j < q + 3 THEN <<>>
          ELSE <<SubSeq(line, q + 3, j)>>

TCMatch(line) ==
  LET hits == {i \in 1..Len(line) : TCMatchAt(line, i) # <<>>} IN
  IF hits = {} THEN <<>>
  ELSE Only({TCMatchAt(line, i) : i \in {x \in hits : \A y \in hits : x <= y}})

MarkerPriority == <<"*", "*", "P", "r", "i", "o", "r", "i", "t", "y", "*", "*", ":">>
MarkerDescription ==
  <<"*", "*", "D", "e", "s", "c", "r", "i", "p", "t", "i", "o", "n", "*", "*", ":">>
MarkerExpectedResult ==
  <<"*", "*", "E", "x", "p", "e", "c", "t", "e", "d", " ", "R", "e", "s", "u", "l", "t", "*", "*", ":">>
WordsFunctionalRequirement ==
  <<"f", "u", "n", "c", "t", "i", "o", "n", "a", "l", " ",
    "r", "e", "q", "u", "i", "r", "e", "m", "e", "n", "t">>
WordsTestCase == <<"t", "e", "s", "t", " ", "c", "a", "s", "e">>

\* line.split(':')[1].trim().toLowerCase().split('/')[0]
PriorityOf(line) ==
  Only({Split(lowered, "/")[1] :
          lowered \in {toLowerCase(trimmed) :
                         trimmed \in {Trim(piece) : piece \in {Split(line, ":")[2]}}}})

\* line.split(':').slice(1).join(':').trim()
AfterFirstColon(line) ==
  Only({Trim(joined) :
          joined \in {Join(Tail(pieces), ":") : pieces \in {Split(line, ":")}}})

\* assignment to a field of the object currentItem refers to
SetField(spec, item, field, value) ==
  IF item.kind = "functional"
  THEN [spec EXCEPT !.requirements.functional[item.index][field] = value]
  ELSE IF item.kind = "test_case"
  THEN [spec EXCEPT !.test_cases[item.index][field] = value]
  ELSE spec

\* variant: a new section keeps the current item
DetectSectionKeepingItem(st, line) ==
  IF StartsWith(line, <<"#", "#", " ">>)
  THEN [st EXCEPT !.currentSection = toLowerCase(Trim(SubSeq(line, 4, Len(line))))]
  ELSE st

\* if (line.startsWith('## ')) { ... }
DetectSection(st, line) ==
  IF StartsWith(line, <<"#", "#", " ">>)
  THEN [st EXCEPT
          !.currentSection =
             Only({toLowerCase(trimmed) :
                     trimmed \in {Trim(rest) : rest \in {SubSeq(line, 4, Len(line))}}}),
          !.currentItem = NullItem]
  ELSE st

\* variant: a requirement line counts in every section
ParseRequirementLineAnySection(st, line) ==
  LET m == FRMatch(line)
      s1 == IF m = <<>> THEN st
            ELSE [st EXCEPT
                    !.spec.requirements.functional =
                       Append(@, NewRequirement(<<"F", "R", "-">> \o m[1], m[2])),
                    !.currentItem =
                       [kind |-> "functional",
                        index |-> Len(st.spec.requirements.functional) + 1]]
  IN IF s1.currentItem # NullItem /\ Includes(line, MarkerPriority)
     THEN [s1 EXCEPT !.spec = SetField(@, s1.currentItem, "priority", PriorityOf(line))]
     ELSE s1

\* if (currentSection.includes('functional requirement')) { ... }
ParseRequirementLine(st, line) ==
  IF ~Includes(st.currentSection, WordsFunctionalRequirement) THEN st
  ELSE LET m == FRMatch(line)
           s1 == IF m = <<>> THEN st
                 ELSE [st EXCEPT
                         !.spec.requirements.functional =
                            Append(@, NewRequirement(<<"F", "R", "-">> \o m[1], m[2])),
                         !.currentItem =
                            [kind |-> "functional",
                             index |-> Len(st.spec.requirements.functional) + 1]]
       IN IF s1.currentItem # NullItem /\ Includes(line, MarkerPriority)
          THEN [s1 EXCEPT !.spec = SetField(@, s1.currentItem, "priority", PriorityOf(line))]
          ELSE s1

\* if (currentSection.includes('test case')) { ... }
ParseTestCaseLine(st, line) ==
  IF ~Includes(st.currentSection, WordsTestCase) THEN st
  ELSE LET m == TCMatch(line)
           s1 == IF m = <<>> THEN st
                 ELSE [st EXCEPT
                         !.spec.test_cases = Append(@, NewTestCase(<<"T", "C", "-">> \o m[1])),
                         !.currentItem =
                            [kind |-> "test_case", index |-> Len(st.spec.test_cases) + 1]]
           s2 == IF s1.currentItem # NullItem /\ Includes(line, MarkerDescription)
                 THEN [s1 EXCEPT !.spec = SetField(@, s1.currentItem, "description",
                                                   AfterFirstColon(line))]
                 ELSE s1
       IN IF s2.currentItem # NullItem /\ Includes(line, MarkerExpectedResult)
          THEN [s2 EXCEPT !.spec = SetField(@, s2.currentItem, "expected_result",
                                            AfterFirstColon(line))]
          ELSE s2

\* the body of the loop, for one line
ParseLine(st, line) == ParseTestCaseLine(ParseRequirementLine(DetectSection(st, line), line), line)

\* the scanner before the first line
StartState == [spec |-> EmptySpec, currentSection |-> <<>>, currentItem |-> NullItem]

\* for (let i = 0; i < lines.length; i++) { ... }: the scanner before the first
\* iteration and after each of the first i iterations
RECURSIVE ParseLines(_, _)
ParseLines(lines, i) ==
  IF i = 0 THEN <<StartState>>
  ELSE LET before == ParseLines(lines, i - 1)
       IN Append(before, ParseLine(before[i], lines[i]))

parseMarkdown(c) ==
  LET lines == Split(c.text, "\n") IN ParseLines(lines, Len(lines))[Len(lines) + 1].spec

\* variant: the extension is compared as written, upper-case letters included
ParseExtCaseSensitive(f) == SplitPop(f, ".")

\* SpecParser.parse: const ext = filename.split('.').pop().toLowerCase()
ParseExt(f) == toLowerCase(SplitPop(f, "."))

parse(c, f) ==
  LET ext == ParseExt(f) IN
  IF ext = ExtYaml \/ ext = ExtYml THEN parseYAML(c)
  ELSE IF ext = ExtMd
  THEN [status |-> "returned", path |-> "md", value |-> parseMarkdown(c), error |-> NoError]
  ELSE [status |-> "threw", path |-> "none", value |-> NullDoc,
        error |-> UnsupportedFormat(ext)]

(***************************************************************************)
(* TestGenerator                                                           *)
(*   g is the call under way: g.output is the text so far, g.exc the       *)
(*   exception raised (NoError while none is).                             *)
(***************************************************************************)
\* a property of an object: undefined when the object does not have it
Prop(o, f) == IF f \in DOMAIN o THEN o[f] ELSE Undefined
ListProp(o, f) == IF f \in DOMAIN o THEN o[f] ELSE NoList
ReqsProp(o) == IF "requirements" \in DOMAIN o THEN o.requirements ELSE NoReqs

\* ${v} in a template literal
TextUndefined == <<"u", "n", "d", "e", "f", "i", "n", "e", "d">>
Str(v) == IF v = Undefined THEN TextUndefined ELSE v

\* ${index + 1}
Digit(n) == <<"0", "1", "2", "3", "4", "5", "6", "7", "8", "9">>[n + 1]
NumberText(n) == IF n < 10 THEN <<Digit(n)>> ELSE <<Digit(n \div 10), Digit(n % 10)>>

NewOutput == [output |-> <<>>, exc |-> NoError]
Emit(g, text) == [g EXCEPT !.output = @ \o text]
Raise(g, m) == [g EXCEPT !.exc = m]
TypeErrorFunctionalForEach == <<"spec.requirements.functional.forEach is not a function">>

\* the literal pieces of text that generate appends to its output
Text ==
  [headerGenerated |->
     <<"/", "/", " ", "A", "u", "t", "o", "-", "g", "e", "n", "e", "r", "a", "t", "e", "d", " ",
     "t", "e", "s", "t", "s", " ", "f", "r", "o", "m", " ", "s", "p", "e", "c", "i", "f", "i",
     "c", "a", "t", "i", "o", "n", "\n">>,
   headerDoNotEdit |->
     <<"/", "/", " ", "D", "O", " ", "N", "O", "T", " ", "E", "D", "I", "T", ":", " ", "T", "h",
     "i", "s", " ", "f", "i", "l", "e", " ", "w", "a", "s", " ", "g", "e", "n", "e", "r", "a",
     "t", "e", "d", " ", "f", "r", "o", "m", " ", "t", "h", "e", " ", "s", "p", "e", "c", "i",
     "f", "i", "c", "a", "t", "i", "o", "n", "\n", "\n">>,
   describeOpen |->
     <<"d", "e", "s", "c", "r", "i", "b", "e", "(", "'">>,
   blockOpen |->
     <<"'", ",", " ", "(", ")", " ", "=", ">", " ", "{", "\n">>,
   nameApplication |->
     <<"A", "p", "p", "l", "i", "c", "a", "t", "i", "o", "n">>,
   groupFunctional |->
     <<" ", " ", "d", "e", "s", "c", "r", "i", "b", "e", "(", "'", "F", "u", "n", "c", "t", "i",
     "o", "n", "a", "l", " ", "R", "e", "q", "u", "i", "r", "e", "m", "e", "n", "t", "s", "'",
     ",", " ", "(", ")", " ", "=", ">", " ", "{", "\n">>,
   groupUserStories |->
     <<" ", " ", "d", "e", "s", "c", "r", "i", "b", "e", "(", "'", "U", "s", "e", "r", " ", "S",
     "t", "o", "r", "i", "e", "s", "'", ",", " ", "(", ")", " ", "=", ">", " ", "{", "\n">>,
   groupTestCases |->
     <<" ", " ", "d", "e", "s", "c", "r", "i", "b", "e", "(", "'", "T", "e", "s", "t", " ", "C",
     "a", "s", "e", "s", "'", ",", " ", "(", ")", " ", "=", ">", " ", "{", "\n">>,
   testOpen |->
     <<" ", " ", " ", " ", "t", "e", "s", "t", "(", "'">>,
   colon |->
     <<":", " ">>,
   todoRequirement |->
     <<" ", " ", " ", " ", " ", " ", "/", "/", " ", "T", "O", "D", "O", ":", " ", "I", "m", "p",
     "l", "e", "m", "e", "n", "t", " ", "t", "e", "s", "t", " ", "f", "o", "r", " ">>,
   expectTrue |->
     <<" ", " ", " ", " ", " ", " ", "e", "x", "p", "e", "c", "t", "(", "t", "r", "u", "e", ")",
     ".", "t", "o", "B", "e", "(", "t", "r", "u", "e", ")", ";", "\n">>,
   testClose |->
     <<" ", " ", " ", " ", "}", ")", ";", "\n", "\n">>,
   groupClose |->
     <<" ", " ", "}", ")", ";", "\n", "\n">>,
   lastGroupClose |->
     <<" ", " ", "}", ")", ";", "\n">>,
   projectClose |->
     <<"}", ")", ";", "\n">>,
   nameUserStory |->
     <<"U", "s", "e", "r", " ", "S", "t", "o", "r", "y">>,
   textAsA |->
     <<":", " ", "A", "s", " ", "a", " ">>,
   textIWant |->
     <<",", " ", "I", " ", "w", "a", "n", "t", " ">>,
   commentAcceptance |->
     <<" ", " ", " ", " ", " ", " ", "/", "/", " ", "A", "c", "c", "e", "p", "t", "a", "n", "c",
     "e", ":", " ">>,
   todoUserStory |->
     <<" ", " ", " ", " ", " ", " ", "/", "/", " ", "T", "O", "D", "O", ":", " ", "I", "m", "p",
     "l", "e", "m", "e", "n", "t", " ", "t", "e", "s", "t", " ", "f", "o", "r", " ", "t", "h",
     "i", "s", " ", "u", "s", "e", "r", " ", "s", "t", "o", "r", "y", "\n">>,
   commentPreconditions |->
     <<" ", " ", " ", " ", " ", " ", "/", "/", " ", "P", "r", "e", "c", "o", "n", "d", "i", "t",
     "i", "o", "n", "s", ":", " ">>,
   commentSteps |->
     <<" ", " ", " ", " ", " ", " ", "/", "/", " ", "S", "t", "e", "p", "s", ":", "\n">>,
   commentIndent |->
     <<" ", " ", " ", " ", " ", " ", "/", "/", " ">>,
   dot |->
     <<".", " ">>,
   commentExpected |->
     <<" ", " ", " ", " ", " ", " ", "/", "/", " ", "E", "x", "p", "e", "c", "t", "e", "d", ":",
     " ">>,
   todoSteps |->
     <<" ", " ", " ", " ", " ", " ", "/", "/", " ", "T", "O", "D", "O", ":", " ", "I", "m", "p",
     "l", "e", "m", "e", "n", "t", " ", "t", "e", "s", "t", " ", "s", "t", "e", "p", "s", "\n">>,
   newLine |->
     <<"\n">>]

\* output += '// Auto-generated ...'; output += '// DO NOT EDIT: ...'
Header(g) == Emit(g, Text.headerGenerated \o Text.headerDoNotEdit)

\* variant: the outer group is named after spec.name as it is
DescribeProjectAsIs(spec, g) ==
  IF spec.t = "null" THEN Raise(g, TypeErrorNull("name"))
  ELSE Emit(g, Text.describeOpen \o Str(Prop(spec, "name")) \o Text.blockOpen)

\* output += `describe('${spec.name || 'Application'}', () => {\n`
DescribeProject(spec, g) ==
  IF spec.t = "null" THEN Raise(g, TypeErrorNull("name"))
  ELSE LET name == Prop(spec, "name") IN
       Emit(g, Text.describeOpen \o (IF Falsy(name) THEN Text.nameApplication ELSE name) \o Text.blockOpen)

\* variant: the test of a requirement is titled with its id alone
RequirementTestIdOnly(req) ==
  Text.testOpen \o Str(Prop(req, "id")) \o Text.blockOpen
  \o Text.todoRequirement \o Str(Prop(req, "id")) \o Text.newLine \o Text.expectTrue \o Text.testClose

\* the callback of spec.requirements.functional.forEach
RequirementTest(req) ==
  Text.testOpen \o Str(Prop(req, "id")) \o Text.colon \o Str(Prop(req, "description")) \o Text.blockOpen
  \o Text.todoRequirement \o Str(Prop(req, "id")) \o Text.newLine \o Text.expectTrue \o Text.testClose

\* spec.requirements.functional.forEach(req => { ... }): g after the first i callbacks
RECURSIVE ForEachFunctional(_, _, _)
ForEachFunctional(items, i, g) ==
  IF i = 0 THEN g
  ELSE LET h == ForEachFunctional(items, i - 1, g) IN
       IF h.exc # NoError THEN h
       ELSE IF items[i].t = "null" THEN Raise(h, TypeErrorNull("id"))
       ELSE Emit(h, RequirementTest(items[i]))

\* variant: spec.requirements.functional is read without the check of spec.requirements
FunctionalGroupUnguarded(spec, g) ==
  LET functional == ReqsProp(spec).functional
  IN IF g.exc # NoError THEN g
     ELSE IF ReqsProp(spec).t = "undefined"
     THEN Raise(g, <<"Cannot read properties of undefined (reading '", "functional", "')">>)
     ELSE IF functional.t = "undefined" THEN g
     ELSE IF functional.t # "list"
     THEN Raise(Emit(g, Text.groupFunctional), TypeErrorFunctionalForEach)
     ELSE LET h == ForEachFunctional(functional.items, Len(functional.items),
                                     Emit(g, Text.groupFunctional))
          IN IF h.exc # NoError THEN h ELSE Emit(h, Text.groupClose)

\* if (spec.requirements && spec.requirements.functional) { ... }
FunctionalGroup(spec, g) ==
  LET functional == ReqsProp(spec).functional
  IN IF g.exc # NoError \/ functional.t = "undefined" THEN g
     ELSE IF functional.t # "list"
     THEN Raise(Emit(g, Text.groupFunctional), TypeErrorFunctionalForEach)
     ELSE LET h == ForEachFunctional(functional.items, Len(functional.items),
                                     Emit(g, Text.groupFunctional))
          IN IF h.exc # NoError THEN h ELSE Emit(h, Text.groupClose)

\* story.acceptance_criteria.forEach(criterion => { ... })
RECURSIVE ForEachCriterion(_, _)
ForEachCriterion(criteria, i) ==
  IF i = 0 THEN <<>>
  ELSE ForEachCriterion(criteria, i - 1) \o Text.commentAcceptance \o Str(criteria[i]) \o Text.newLine

\* if (story.acceptance_criteria && story.acceptance_criteria.length > 0) { ... }
AcceptanceComments(story) ==
  LET criteria == ListProp(story, "acceptance_criteria") IN
  IF criteria.t = "list" /\ Len(criteria.items) > 0
  THEN ForEachCriterion(criteria.items, Len(criteria.items))
  ELSE <<>>

\* const testName = `${story.id || 'User Story'}: As a ${story.as_a}, I want ${story.i_want}`
TestName(story) ==
  (IF Falsy(Prop(story, "id")) THEN Text.nameUserStory ELSE Prop(story, "id"))
  \o Text.textAsA \o Str(Prop(story, "as_a")) \o Text.textIWant \o Str(Prop(story, "i_want"))

\* the callback of spec.user_stories.forEach
UserStoryTest(story) ==
  Text.testOpen \o TestName(story) \o Text.blockOpen \o AcceptanceComments(story)
  \o Text.todoUserStory \o Text.expectTrue \o Text.testClose

RECURSIVE ForEachUserStory(_, _, _)
ForEachUserStory(items, i, g) ==
  IF i = 0 THEN g
  ELSE LET h == ForEachUserStory(items, i - 1, g) IN
       IF h.exc # NoError THEN h
       ELSE IF items[i].t = "null" THEN Raise(h, TypeErrorNull("id"))
       ELSE Emit(h, UserStoryTest(items[i]))

\* if (spec.user_stories && spec.user_stories.length > 0) { ... }
UserStoriesGroup(spec, g) ==
  LET stories == ListProp(spec, "user_stories") IN
  IF g.exc # NoError \/ stories.t # "list" \/ Len(stories.items) = 0 THEN g
  ELSE LET h == ForEachUserStory(stories.items, Len(stories.items), Emit(g, Text.groupUserStories))
       IN IF h.exc # NoError THEN h ELSE Emit(h, Text.groupClose)

\* variant: the steps are numbered from 0
RECURSIVE ForEachStepFromZero(_, _)
ForEachStepFromZero(steps, i) ==
  IF i = 0 THEN <<>>
  ELSE ForEachStepFromZero(steps, i - 1)
       \o Text.commentIndent \o NumberText(i - 1) \o Text.dot \o Str(steps[i]) \o Text.newLine

\* tc.steps.forEach((step, index) => { ... })
RECURSIVE ForEachStep(_, _)
ForEachStep(steps, i) ==
  IF i = 0 THEN <<>>
  ELSE ForEachStep(steps, i - 1)
       \o Text.commentIndent \o NumberText(i) \o Text.dot \o Str(steps[i]) \o Text.newLine

\* if (tc.steps && tc.steps.length > 0) { ... }
StepComments(tc) ==
  LET steps == ListProp(tc, "steps") IN
  IF steps.t = "list" /\ Len(steps.items) > 0
  THEN Text.commentSteps \o ForEachStep(steps.items, Len(steps.items))
  ELSE <<>>

\* if (tc.preconditions) { ... }
PreconditionsComment(tc) ==
  IF Falsy(Prop(tc, "preconditions")) THEN <<>>
  ELSE Text.commentPreconditions \o Prop(tc, "preconditions") \o Text.newLine

\* if (tc.expected_result) { ... }
ExpectedComment(tc) ==
  IF Falsy(Prop(tc, "expected_result")) THEN <<>>
  ELSE Text.commentExpected \o Prop(tc, "expected_result") \o Text.newLine

\* the callback of spec.test_cases.forEach
TestCaseTest(tc) ==
  Text.testOpen \o Str(Prop(tc, "id")) \o Text.colon \o Str(Prop(tc, "description")) \o Text.blockOpen
  \o PreconditionsComment(tc) \o StepComments(tc) \o ExpectedComment(tc)
  \o Text.todoSteps \o Text.expectTrue \o Text.testClose

RECURSIVE ForEachGeneratedCase(_, _, _)
ForEachGeneratedCase(items, i, g) ==
  IF i = 0 THEN g
  ELSE LET h == ForEachGeneratedCase(items, i - 1, g) IN
       IF h.exc # NoError THEN h
       ELSE IF items[i].t = "null" THEN Raise(h, TypeErrorNull("id"))
       ELSE Emit(h, TestCaseTest(items[i]))

\* if (spec.test_cases && spec.test_cases.length > 0) { ... }
TestCasesGroup(spec, g) ==
  LET cases == ListProp(spec, "test_cases") IN
  IF g.exc # NoError \/ cases.t # "list" \/ Len(cases.items) = 0 THEN g
  ELSE LET h == ForEachGeneratedCase(cases.items, Len(cases.items), Emit(g, Text.groupTestCases))
       IN IF h.exc # NoError THEN h ELSE Emit(h, Text.lastGroupClose)

\* output += '});\n'; return output
Close(g) ==
  IF g.exc # NoError THEN [status |-> "threw", output |-> <<>>, error |-> g.exc]
  ELSE [status |-> "returned", output |-> g.output \o Text.projectClose, error |-> NoError]

\* variant: the header carries a line that differs from one call to the next
generateStamped(spec) ==
  Close(TestCasesGroup(spec, UserStoriesGroup(spec, FunctionalGroup(spec,
          DescribeProject(spec,
             Emit(Header(NewOutput),
                  <<"/", "/", " ", "G", "e", "n", "e", "r", "a", "t", "e", "d", " ", "o", "n", ":", " ">>
                  \o <<Digit(Len(gres)), "\n">>))))))

generate(spec) ==
  Close(TestCasesGroup(spec, UserStoriesGroup(spec, FunctionalGroup(spec,
          DescribeProject(spec, Header(NewOutput))))))


\* the object parseMarkdown returns, written as a decoded value is
ItemObject(item) ==
  [t |-> "map", id |-> item.id, description |-> item.description,
   priority |-> item.priority, status |-> item.status,
   steps |-> IF item.steps = Undefined THEN NoList ELSE ListOf(item.steps),
   expected_result |-> item.expected_result]
ListObject(items) == ListOf([i \in 1..Len(items) |-> ItemObject(items[i])])
SpecObject(s) ==
  [t |-> "map", name |-> s.name, description |-> s.description,
   requirements |-> ReqsOf(ListObject(s.requirements.functional),
                           ListObject(s.requirements.non_functional)),
   user_stories |-> ListObject(s.user_stories), test_cases |-> ListObject(s.test_cases)]

(***************************************************************************)
(* Inputs                                                                  *)
(***************************************************************************)
FileYaml == <<"a", ".", "y", "a", "m", "l">>
FileYml == <<"a", ".", "y", "m", "l">>
FileMd == <<"a", ".", "m", "d">>
FileTxt == <<"a", ".", "t", "x", "t">>
FileBareYaml == <<"y", "a", "m", "l">>
FileBareMd == <<"m", "d">>
FileUpperYaml == <<"A", ".", "Y", "A", "M", "L">>
FileTwoDots == <<"a", ".", "b", ".", "M", "d">>
FileTrailingDot == <<"a", ".">>
FileYamlTxt == <<"y", "a", "m", "l", ".", "t", "x", "t">>
FileMdYml == <<"a", ".", "m", "d", ".", "y", "m", "l">>
FileNoDotMd == <<"a", "m", "d">>
FileEmpty == <<>>
Filenames ==
  {FileYaml, FileYml, FileMd, FileTxt, FileBareYaml, FileBareMd,
   FileUpperYaml, FileTwoDots, FileTrailingDot, FileYamlTxt, FileMdYml, FileNoDotMd, FileEmpty}

LineOverview == <<"#", "#", " ", "O", "v", "e", "r", "v", "i", "e", "w">>
LineRequirements == <<"#", "#", " ", "R", "e", "q", "u", "i", "r", "e", "m", "e", "n", "t", "s">>
LineTestCases == <<"#", "#", " ", "T", "e", "s", "t", " ", "C", "a", "s", "e", "s">>
LineFunctional == <<"#", "#", " ", "F", "u", "n", "c", "t", "i", "o", "n", "a", "l", " ", "R", "e", "q", "u", "i", "r", "e", "m", "e", "n", "t", "s">>
LineFR == <<"1", ".", " ", "*", "*", "F", "R", "-", "1", "*", "*", ":", " ", "A", "d", "d">>
LineTC == <<"-", " ", "*", "*", "I", "D", "*", "*", ":", " ", "T", "C", "-", "1">>
LinePriority == <<"-", " ", "*", "*", "P", "r", "i", "o", "r", "i", "t", "y", "*", "*", ":", " ", "H", "i", "g", "h", "/", "L", "o", "w">>
LineDescription == <<"-", " ", "*", "*", "D", "e", "s", "c", "r", "i", "p", "t", "i", "o", "n", "*", "*", ":", " ", "a", ":", " ", "b">>
LineFRSecond ==
  <<"2", ".", " ", "*", "*", "F", "R", "-", "0", "2", "*", "*", ":", " ", "b", " ", "c">>
LinePriorityLow ==
  <<"-", " ", "*", "*", "P", "r", "i", "o", "r", "i", "t", "y", "*", "*", ":", " ", "L", "o",
    "w">>
LineNotePriority ==
  <<"N", "o", "t", "e", ":", " ", "*", "*", "P", "r", "i", "o", "r", "i", "t", "y", "*", "*",
    ":", " ", "H", "i", "g", "h">>
TestLineFR ==
  <<"1", ".", " ", "*", "*", "F", "R", "-", "0", "0", "1", "*", "*", ":", " ", "A", "d", "d",
    " ", "t", "w", "o", " ", "n", "u", "m", "b", "e", "r", "s">>
TestLinePriority ==
  <<" ", " ", " ", "-", " ", "*", "*", "P", "r", "i", "o", "r", "i", "t", "y", "*", "*", ":",
    " ", "H", "i", "g", "h">>
TestLineStatus ==
  <<" ", " ", " ", "-", " ", "*", "*", "S", "t", "a", "t", "u", "s", "*", "*", ":", " ", "P",
    "l", "a", "n", "n", "e", "d">>
TestLineHeading == <<"#", "#", "#", " ", "T", "e", "s", "t", " ", "C", "a", "s", "e", " ", "1">>
TestLineTC == <<"-", " ", "*", "*", "I", "D", "*", "*", ":", " ", "T", "C", "-", "0", "0", "1">>
TestLineDescription ==
  <<"-", " ", "*", "*", "D", "e", "s", "c", "r", "i", "p", "t", "i", "o", "n", "*", "*", ":",
    " ", "T", "e", "s", "t", " ", "a", "d", "d", "i", "t", "i", "o", "n">>
TestLineExpected ==
  <<"-", " ", "*", "*", "E", "x", "p", "e", "c", "t", "e", "d", " ", "R", "e", "s", "u", "l",
    "t", "*", "*", ":", " ", "S", "u", "m", " ", "i", "s", " ", "c", "o", "r", "r", "e", "c",
    "t">>
Lines ==
  {LineOverview, LineRequirements, LineTestCases, LineFunctional,
   LineFR, LineTC, LinePriority, LineDescription}

LineName == <<"-", " ", "*", "*", "N", "a", "m", "e", "*", "*", ":", " ", "c", "a", "l", "c">>
LineUserStories == <<"#", "#", " ", "U", "s", "e", "r", " ", "S", "t", "o", "r", "i", "e", "s">>
LineStory ==
  <<"A", "s", " ", "a", " ", "u", "s", "e", "r", ",", " ", "I", " ", "w", "a", "n", "t", " ",
    "x">>
LineNFR ==
  <<"1", ".", " ", "*", "*", "N", "F", "R", "-", "1", "*", "*", ":", " ", "f", "a", "s", "t">>
\* the lines of the documents handed to the parser and the generator
ParserLines ==
  Lines \cup {LineFRSecond, LinePriorityLow, LineNotePriority,
              LineName, LineUserStories, LineStory, LineNFR}

\* the document of the parser's Markdown test
TestMarkdown ==
  Join(<<Empty, LineFunctional, TestLineFR, TestLinePriority, TestLineStatus, Empty,
         LineTestCases, TestLineHeading, TestLineTC, TestLineDescription, TestLineExpected,
         Empty>>, "\n")

\* the lines of the project template's Requirements section
Template ==
  [functional |-> <<"#", "#", "#", " ", "F", "u", "n", "c", "t", "i", "o", "n", "a", "l", " ", "R", "e", "q", "u", "i", "r", "e", "m", "e", "n", "t", "s">>,
   requirement |->
     <<"1", ".", " ", "*", "*", "F", "R", "-", "0", "0", "1", "*", "*", ":", " ", "[", "D", "e", "s", "c", "r", "i", "p", "t", "i", "o", "n", "]">>,
   priority |->
     <<" ", " ", " ", "-", " ", "*", "*", "P", "r", "i", "o", "r", "i", "t", "y", "*", "*", ":", " ", "H", "i", "g", "h", "/", "M", "e", "d", "i", "u", "m", "/", "L", "o", "w">>]
TemplateMarkdown ==
  Join(<<LineRequirements, Empty, Template.functional, Template.requirement,
         Template.priority>>, "\n")

SeqsOfLen(S, k) == [1..k -> S]
SeqsUpTo(S, n) == UNION {SeqsOfLen(S, k) : k \in 0..n}

\* a text of the given lines, and the same text padded with a last line up to a length
Padded(text, total) ==
  IF total <= Len(text) THEN text
  ELSE text \o <<"\n">> \o [i \in 1..(total - Len(text) - 1) |-> "x"]
PaddedLengths == {0, ShortLimit - 1, ShortLimit}
MdTexts == {Padded(Join(ls, "\n"), n) : ls \in SeqsUpTo(Lines, MaxLines), n \in PaddedLengths}

\* what the decoder makes of a Markdown text: a text of comment lines is an empty
\* document, the '*' or '-' of a marker line makes it fail or gives a non-mapping
AsYaml(text) ==
  IF text = <<>> \/ text[1] = "#" THEN Decoded(NullDoc)
  ELSE IF text[1] = "-" THEN Decoded(NonMapDoc("list"))
  ELSE DecodeFailure("Unexpected scalar at node end")
MdContents == {[text |-> t, yaml |-> AsYaml(t)] : t \in MdTexts}
ParserTexts == {Join(ls, "\n") : ls \in SeqsUpTo(ParserLines, MaxLines)} \cup {TestMarkdown}
ParserContents == {[text |-> t, yaml |-> AsYaml(t)] : t \in ParserTexts}

\* values of the fields of a YAML document
NameN == <<"c", "a", "l", "c">>
DescD == <<"d">>
IdA == <<"A">>
IdB == <<"B">>
IdT == <<"T">>
ResultE == <<"e">>
NullEntry == [t |-> "null", id |-> Undefined, description |-> Undefined,
              expected_result |-> Undefined]
Entry(id, d, e) == [t |-> "map", id |-> id, description |-> d, expected_result |-> e]
ReqEntries ==
  {NullEntry} \cup {Entry(id, DescD, Undefined) : id \in {Undefined, Empty, IdA, IdB}}
TCEntries ==
  {NullEntry, Entry(Undefined, Undefined, Undefined), Entry(Undefined, DescD, ResultE),
   Entry(IdT, Undefined, Undefined), Entry(IdT, DescD, Undefined), Entry(IdT, DescD, ResultE)}

\* the values of a list-valued field with k entries
ListValues(S, k) ==
  IF k = 0 THEN {NoList, NumberValue, ListOf(<<>>)}
  ELSE {ListOf(items) : items \in SeqsOfLen(S, k)}

ReqsValues(n) ==
  (IF n = 0 THEN {NoReqs, OtherReqs} ELSE {})
  \cup UNION {{ReqsOf(f, nf) : f \in ListValues(ReqEntries, a),
                               nf \in ListValues(ReqEntries, n - a)} : a \in 0..n}

\* a mapping
MapDoc(nm, d, rq, tc) ==
  [t |-> "map", name |-> nm, description |-> d, requirements |-> rq, test_cases |-> tc]
Names == {Undefined, Empty, NameN}
Descriptions == {Undefined, DescD}

YamlText == <<"n", "a", "m", "e", ":">>
YamlContent(y) == [text |-> YamlText, yaml |-> y]
DecoderMessage == "Nested mappings are not allowed in compact mappings"
NonMapOutcomes ==
  {DecodeFailure(DecoderMessage), Decoded(NullDoc), Decoded(NonMapDoc("scalar")),
   Decoded(NonMapDoc("list"))}

\* documents for the generator: names, requirements, user stories and test cases
NameQuote == <<"i", "t", "'", "s">>
DescQuote == <<"o", "'", "c">>
IdU == <<"U">>
AsUser == <<"u">>
WantLogin == <<"w">>
WantBackslash == <<"w", "\\">>
CriterionP == <<"p">>
CriterionBreak == <<"q", "\n", "r">>
PreconditionP == <<"g">>
StepS == <<"s">>
StepT == <<"t">>
Story(id, a, w, c) ==
  [t |-> "map", id |-> id, as_a |-> a, i_want |-> w, acceptance_criteria |-> c]
Case(id, d, p, s, e) ==
  [t |-> "map", id |-> id, description |-> d, preconditions |-> p, steps |-> s,
   expected_result |-> e]
GenNames == {Undefined, Empty, NameN, NameQuote}
GenReqEntries ==
  {Entry(IdA, DescD, Undefined), Entry(IdB, DescQuote, Undefined),
   Entry(Undefined, Undefined, Undefined), NullEntry}
StoryEntries ==
  {Story(IdU, AsUser, WantLogin, ListOf(<<CriterionP, CriterionBreak>>)),
   Story(Undefined, AsUser, WantBackslash, NoList),
   Story(Empty, Undefined, Undefined, ListOf(<<>>))}
CaseEntries ==
  {Case(IdT, DescD, PreconditionP, ListOf(<<StepS, StepT, StepS>>), ResultE),
   Case(IdT, DescD, Undefined, NoList, Undefined),
   Case(IdA, Undefined, Empty, ListOf(<<>>), Empty)}

\* the values of requirements with k functional entries, and of a list field with k entries
GenReqsValues(k) ==
  IF k = 0
  THEN {NoReqs, OtherReqs, ReqsOf(NoList, NoList), ReqsOf(ListOf(<<>>), NoList),
        ReqsOf(NoList, ListOf(<<Entry(IdB, DescD, Undefined)>>))}
  ELSE {ReqsOf(ListOf(items), NoList) : items \in SeqsOfLen(GenReqEntries, k)}
GenDoc(nm, rq, us, tc) ==
  [t |-> "map", name |-> nm, description |-> Undefined, requirements |-> rq,
   user_stories |-> us, test_cases |-> tc]

\* the document of the parser's YAML test: its text and what the decoder makes of it
NameCalculator == <<"c", "a", "l", "c", "u", "l", "a", "t", "o", "r">>
IdFR001 == <<"F", "R", "-", "0", "0", "1">>
DescAddNumbers == <<"A", "d", "d", " ", "n", "u", "m", "b", "e", "r", "s">>
CalcLine1 == <<"n", "a", "m", "e", ":", " ", "c", "a", "l", "c", "u", "l", "a", "t", "o", "r">>
CalcLine2 ==
  <<"v", "e", "r", "s", "i", "o", "n", ":", " ", "\"", "1", ".", "0", ".", "0", "\"">>
CalcLine3 ==
  <<"d", "e", "s", "c", "r", "i", "p", "t", "i", "o", "n", ":", " ", "\"", "C", "a", "l", "c",
    "u", "l", "a", "t", "o", "r", " ", "a", "p", "p", "\"">>
CalcLine4 == <<"r", "e", "q", "u", "i", "r", "e", "m", "e", "n", "t", "s", ":">>
CalcLine5 == <<" ", " ", "f", "u", "n", "c", "t", "i", "o", "n", "a", "l", ":">>
CalcLine6 == <<" ", " ", " ", " ", "-", " ", "i", "d", ":", " ", "F", "R", "-", "0", "0", "1">>
CalcLine7 ==
  <<" ", " ", " ", " ", " ", " ", "d", "e", "s", "c", "r", "i", "p", "t", "i", "o", "n", ":",
    " ", "\"", "A", "d", "d", " ", "n", "u", "m", "b", "e", "r", "s", "\"">>
CalcLine8 ==
  <<" ", " ", " ", " ", " ", " ", "p", "r", "i", "o", "r", "i", "t", "y", ":", " ", "h", "i",
    "g", "h">>
DescCalculatorApp == <<"C", "a", "l", "c", "u", "l", "a", "t", "o", "r", " ", "a", "p", "p">>
CalculatorText ==
  Join(<<Empty, CalcLine1, CalcLine2, CalcLine3, CalcLine4, CalcLine5, CalcLine6, CalcLine7,
         CalcLine8, Empty>>, "\n")
CalculatorDoc ==
  [t |-> "map", name |-> NameCalculator, version |-> <<"1", ".", "0", ".", "0">>,
   description |-> DescCalculatorApp,
   requirements |->
     ReqsOf(ListOf(<<[t |-> "map", id |-> IdFR001, description |-> DescAddNumbers,
                      priority |-> <<"h", "i", "g", "h">>]>>), NoList),
   test_cases |-> NoList]
CalculatorContent == [text |-> CalculatorText, yaml |-> Decoded(CalculatorDoc)]

\* a few contents of each kind, for the calls that differ in the file name
SampleContents ==
  {YamlContent(DecodeFailure(DecoderMessage)),
   YamlContent(Decoded(NullDoc)),
   YamlContent(Decoded(MapDoc(NameN, DescD,
                              ReqsOf(ListOf(<<Entry(IdA, DescD, Undefined)>>), NoList), NoList))),
   [text |-> Join(<<LineFunctional, LineFR>>, "\n"),
    yaml |-> AsYaml(Join(<<LineFunctional, LineFR>>, "\n"))]}

(***************************************************************************)
(* The caller: one content and file name, handed to the validator and to   *)
(* the parser; the two calls are independent of each other.                *)
(***************************************************************************)
ParsePending == [status |-> "pending", path |-> "none", value |-> NullDoc, error |-> NoError]

\* no call on shared instances, no command and no parseMarkdown loop under way
NoCalls == <<>>
CliIdle == [file |-> "none", status |-> "idle", exit |-> 0, report |-> "none"]
ScanIdle == [phase |-> "idle", lines |-> <<>>, i |-> 0, st |-> StartState]
Idle == calls = NoCalls /\ cli = CliIdle /\ scan = ScanIdle

\* calls that differ in the file name
InitFormats ==
  /\ content \in SampleContents
  /\ filename \in Filenames

\* YAML documents: the non-mappings, and the mappings with at most MaxItems list entries
InitYaml ==
  /\ filename = FileYaml
  /\ \/ \E y \in NonMapOutcomes : content = YamlContent(y)
     \/ \E k \in 0..MaxItems : \E n \in 0..k :
          \E nm \in Names, d \in Descriptions,
             rq \in ReqsValues(n), tc \in ListValues(TCEntries, k - n) :
            content = YamlContent(Decoded(MapDoc(nm, d, rq, tc)))

\* Markdown texts of at most MaxLines lines, bare and padded, and the template's section
InitMd ==
  /\ filename = FileMd
  /\ \/ content \in MdContents
     \/ content = [text |-> TemplateMarkdown, yaml |-> AsYaml(TemplateMarkdown)]

Init ==
  /\ InitFormats \/ InitYaml \/ InitMd
  /\ vres = Pending
  /\ pres = ParsePending
  /\ gres = <<>>
  /\ Idle

Validate ==
  /\ vres.status = "pending"
  /\ vres' = validate(content, filename)
  /\ UNCHANGED <<content, filename, pres, gres, calls, cli, scan>>

Parse ==
  /\ pres.status = "pending"
  /\ pres' = parse(content, filename)
  /\ UNCHANGED <<content, filename, vres, gres, calls, cli, scan>>

\* the object the parser returned, as the generator receives it
ParsedObject == IF pres.path = "md" THEN SpecObject(pres.value) ELSE pres.value

\* variant: generate stores the default name in the object it was given
GenerateStoringName ==
  /\ pres.status = "returned"
  /\ Len(gres) < MaxCalls
  /\ gres' = Append(gres, generate(ParsedObject))
  /\ pres' = [pres EXCEPT !.value.name = IF Falsy(@) THEN Text.nameApplication ELSE @]
  /\ UNCHANGED <<content, filename, vres, calls, cli, scan>>

\* the generate command, after parse returned; the calls append to gres
Generate ==
  /\ pres.status = "returned"
  /\ Len(gres) < MaxCalls
  /\ gres' = Append(gres, generate(ParsedObject))
  /\ UNCHANGED <<content, filename, vres, pres, calls, cli, scan>>

Next == Validate \/ Parse

Spec == Init /\ [][Next]_vars

(***************************************************************************)
(* The generate command: the content is parsed and the object the parser   *)
(* returns is handed to the generator.                                     *)
(***************************************************************************)
\* YAML documents with user stories and test case steps, at most MaxItems entries in all
InitGenerator ==
  /\ filename = FileYaml
  /\ \/ \E y \in NonMapOutcomes : content = YamlContent(y)
     \/ content = CalculatorContent
     \/ \E k \in 0..MaxItems : \E a \in 0..k : \E b \in 0..(k - a) :
          \E nm \in GenNames, rq \in GenReqsValues(a),
             us \in ListValues(StoryEntries, b), tc \in ListValues(CaseEntries, k - a - b) :
            content = YamlContent(Decoded(GenDoc(nm, rq, us, tc)))

\* Markdown documents of at most MaxLines lines, and the document of the parser's test
InitParser ==
  /\ filename = FileMd
  /\ content \in ParserContents

InitGenerate ==
  /\ InitGenerator \/ InitParser
  /\ vres = Pending
  /\ pres = ParsePending
  /\ gres = <<>>
  /\ Idle

NextGenerate == Parse \/ Generate

SpecGenerate == InitGenerate /\ [][NextGenerate]_vars

(***************************************************************************)
(* Calls on shared instances: one SpecValidator, one SpecParser and one    *)
(* TestGenerator receive calls in any order; calls is the log of the       *)
(* results, object the call that created the object a parse returned (for  *)
(* generate: the parse call whose object it was given).                    *)
(***************************************************************************)
ResultObject(p) == IF p.path = "md" THEN SpecObject(p.value) ELSE p.value

CallValidate ==
  /\ Len(calls) <= MaxCalls
  /\ calls' = Append(calls, [op |-> "validate", object |-> 0,
                             out |-> validate(content, filename)])
  /\ UNCHANGED <<content, filename, vres, pres, gres, cli, scan>>

\* variant: the parser keeps the object of its first Markdown call and appends to it
CallParseShared ==
  /\ Len(calls) <= MaxCalls
  /\ LET earlier == {j \in 1..Len(calls) : calls[j].op = "parse" /\ calls[j].out.path = "md"}
         new == parse(content, filename)
     IN calls' =
          IF earlier = {} \/ new.path # "md"
          THEN Append(calls, [op |-> "parse", object |-> Len(calls) + 1, out |-> new])
          ELSE LET j == CHOOSE x \in earlier : \A y \in earlier : x <= y
               IN Append(calls,
                         [op |-> "parse", object |-> calls[j].object,
                          out |-> [new EXCEPT !.value.requirements.functional =
                                     calls[j].out.value.requirements.functional \o @]])
  /\ UNCHANGED <<content, filename, vres, pres, gres, cli, scan>>

\* parseMarkdown builds the object it returns in the call (const spec = { ... })
CallParse ==
  /\ Len(calls) <= MaxCalls
  /\ calls' = Append(calls, [op |-> "parse", object |-> Len(calls) + 1,
                             out |-> parse(content, filename)])
  /\ UNCHANGED <<content, filename, vres, pres, gres, cli, scan>>

CallGenerate ==
  /\ Len(calls) <= MaxCalls
  /\ \E j \in 1..Len(calls) :
       /\ calls[j].op = "parse" /\ calls[j].out.status = "returned"
       /\ calls' = Append(calls, [op |-> "generate", object |-> calls[j].object,
                                  out |-> generate(ResultObject(calls[j].out))])
  /\ UNCHANGED <<content, filename, vres, pres, gres, cli, scan>>

\* the contents the calls are made on: every file name, the calculator document and
\* the Markdown texts of at most MaxLines section and marker lines
CallLines == {LineFunctional, LineFR, LineTestCases, LineTC}
InitCalls ==
  /\ \/ InitFormats
     \/ filename = FileYaml /\ content = CalculatorContent
     \/ /\ filename = FileMd
        /\ \E ls \in SeqsUpTo(CallLines, MaxLines) :
             content = [text |-> Join(ls, "\n"), yaml |-> AsYaml(Join(ls, "\n"))]
  /\ vres = Pending
  /\ pres = ParsePending
  /\ gres = <<>>
  /\ Idle

NextCalls == CallValidate \/ CallParse \/ CallGenerate

SpecCalls == InitCalls /\ [][NextCalls]_vars

(***************************************************************************)
(* The validate command of the CLI. cli.file says what the file system     *)
(* holds under the given name; the command ends the process with           *)
(* process.exit(1) or by returning, which is exit status 0.                *)
(***************************************************************************)
FileStates == {"missing", "unreadable", "readable"}

\* variant: a result with errors is reported and the process ends with status 0
ValidateCommandLenient ==
  /\ cli.status = "started"
  /\ IF cli.file = "missing"
     THEN cli' = [cli EXCEPT !.status = "exited", !.exit = 1, !.report = "not found"]
          /\ vres' = vres
     ELSE IF cli.file = "unreadable"
     THEN cli' = [cli EXCEPT !.status = "exited", !.exit = 1, !.report = "threw"]
          /\ vres' = vres
     ELSE LET result == validate(content, filename) IN
          /\ vres' = result
          /\ cli' = IF result.status = "threw"
                    THEN [cli EXCEPT !.status = "exited", !.exit = 1, !.report = "threw"]
                    ELSE IF result.result.valid
                    THEN [cli EXCEPT !.status = "exited", !.exit = 0, !.report = "valid"]
                    ELSE [cli EXCEPT !.status = "exited", !.exit = 0, !.report = "errors"]
  /\ UNCHANGED <<content, filename, pres, gres, calls, scan>>

\* .action((file) => { ... }): existsSync, then readFileSync and validate in a try block
ValidateCommand ==
  /\ cli.status = "started"
  /\ IF cli.file = "missing"
     THEN cli' = [cli EXCEPT !.status = "exited", !.exit = 1, !.report = "not found"]
          /\ vres' = vres
     ELSE IF cli.file = "unreadable"
     THEN cli' = [cli EXCEPT !.status = "exited", !.exit = 1, !.report = "threw"]
          /\ vres' = vres
     ELSE LET result == validate(content, filename) IN
          /\ vres' = result
          /\ cli' = IF result.status = "threw"
                    THEN [cli EXCEPT !.status = "exited", !.exit = 1, !.report = "threw"]
                    ELSE IF result.result.valid
                    THEN [cli EXCEPT !.status = "exited", !.exit = 0, !.report = "valid"]
                    ELSE [cli EXCEPT !.status = "exited", !.exit = 1, !.report = "errors"]
  /\ UNCHANGED <<content, filename, pres, gres, calls, scan>>

\* a file that is missing or cannot be read, and the readable files of every content
InitCli ==
  /\ \/ /\ InitFormats \/ InitYaml \/ InitMd
        /\ cli = [CliIdle EXCEPT !.file = "readable", !.status = "started"]
     \/ /\ InitFormats
        /\ \E f \in FileStates \ {"readable"} :
             cli = [CliIdle EXCEPT !.file = f, !.status = "started"]
  /\ vres = Pending
  /\ pres = ParsePending
  /\ gres = <<>>
  /\ calls = NoCalls
  /\ scan = ScanIdle

NextCli == ValidateCommand

SpecCli == InitCli /\ [][NextCli]_vars

(***************************************************************************)
(* The loop of parseMarkdown, one iteration at a time. scan.lines are the  *)
(* lines of the content, scan.i the number of iterations made (the value   *)
(* of i at the loop test), scan.st the object and the two locals.          *)
(***************************************************************************)
\* section and marker lines: headers of one and of both kinds, '### ' and '# ' lines,
\* and headers that carry a marker themselves
ScanLine ==
  [combined |-> <<"#", "#", " ", "F", "u", "n", "c", "t", "i", "o", "n", "a", "l", " ", "R", "e", "q", "u", "i", "r", "e", "m", "e", "n", "t", "s", " ", "a", "n", "d", " ", "T", "e", "s", "t", " ", "C", "a", "s", "e", "s">>,
   title |-> <<"#", " ", "S", "p", "e", "c", "i", "f", "i", "c", "a", "t", "i", "o", "n", " ", "T", "e", "m", "p", "l", "a", "t", "e">>,
   headerMarker |-> <<"#", "#", " ", "T", "e", "s", "t", " ", "C", "a", "s", "e", "s", " ", "*", "*", "I", "D", "*", "*", ":", " ", "T", "C", "-", "9">>,
   subMarker |-> <<"#", "#", "#", " ", "C", "a", "s", "e", " ", "*", "*", "I", "D", "*", "*", ":", " ", "T", "C", "-", "7">>]
ScanLines ==
  {LineFunctional, LineTestCases, ScanLine.combined, Template.functional, ScanLine.title,
   LineFR, LineTC, TestLineTC, LinePriority, LineDescription, TestLineExpected,
   ScanLine.headerMarker, ScanLine.subMarker}
ScanDocuments ==
  {<<LineFunctional, LineFR, LineFunctional, LinePriority>>,
   <<LineTestCases, LineTC, TestLineTC, LineDescription, TestLineExpected>>,
   <<ScanLine.combined, LineFR, LineDescription, LineTC, LinePriority>>,
   Split(TestMarkdown, "\n"), Split(TemplateMarkdown, "\n")}
ScanTexts == {Join(ls, "\n") : ls \in SeqsUpTo(ScanLines, MaxLines) \cup ScanDocuments}

\* const spec = { ... }; const lines = content.split('\n'); currentSection = ''; ...
EnterParseMarkdown ==
  /\ scan.phase = "idle"
  /\ ParseExt(filename) = ExtMd
  /\ scan' = [phase |-> "loop", lines |-> Split(content.text, "\n"), i |-> 0,
              st |-> StartState]
  /\ UNCHANGED <<content, filename, vres, pres, gres, calls, cli>>

\* variant: the line after a section header is stepped over
LoopIterationSkipping ==
  /\ scan.phase = "loop"
  /\ scan.i < Len(scan.lines)
  /\ \E detected \in {DetectSection(scan.st, scan.lines[scan.i + 1])} :
       \E functional \in {ParseRequirementLine(detected, scan.lines[scan.i + 1])} :
          \E cases \in {ParseTestCaseLine(functional, scan.lines[scan.i + 1])} :
             scan' = [scan EXCEPT
                        !.i = IF StartsWith(scan.lines[scan.i + 1], <<"#", "#", " ">>)
                                 /\ scan.i + 2 <= Len(scan.lines)
                              THEN @ + 2 ELSE @ + 1,
                        !.st = cases]
  /\ UNCHANGED <<content, filename, vres, pres, gres, calls, cli>>

\* for (let i = 0; i < lines.length; i++) { const line = lines[i]; ... }: the three
\* if statements of the body, each on the scanner the one before it left
LoopIteration ==
  /\ scan.phase = "loop"
  /\ scan.i < Len(scan.lines)
  /\ \E detected \in {DetectSection(scan.st, scan.lines[scan.i + 1])} :
       \E functional \in {ParseRequirementLine(detected, scan.lines[scan.i + 1])} :
          \E cases \in {ParseTestCaseLine(functional, scan.lines[scan.i + 1])} :
             scan' = [scan EXCEPT !.i = @ + 1, !.st = cases]
  /\ UNCHANGED <<content, filename, vres, pres, gres, calls, cli>>

\* return spec
ReturnSpec ==
  /\ scan.phase = "loop"
  /\ scan.i = Len(scan.lines)
  /\ scan' = [scan EXCEPT !.phase = "returned"]
  /\ pres' = [status |-> "returned", path |-> "md", value |-> scan.st.spec, error |-> NoError]
  /\ UNCHANGED <<content, filename, vres, gres, calls, cli>>

InitScan ==
  /\ filename = FileMd
  /\ \E t \in ScanTexts : content = [text |-> t, yaml |-> AsYaml(t)]
  /\ vres = Pending
  /\ pres = ParsePending
  /\ gres = <<>>
  /\ Idle

NextScan == EnterParseMarkdown \/ LoopIteration \/ ReturnSpec

SpecScan == InitScan /\ [][NextScan]_vars

\* the documents of the fair specification: the header, item and field lines
FairLines ==
  {LineFunctional, LineTestCases, ScanLine.combined, LineFR, LineTC, LinePriority,
   LineDescription, TestLineExpected}
FairTexts == {Join(ls, "\n") : ls \in SeqsUpTo(FairLines, MaxLines) \cup ScanDocuments}

InitScanFair ==
  /\ filename = FileMd
  /\ \E t \in FairTexts : content = [text |-> t, yaml |-> AsYaml(t)]
  /\ vres = Pending
  /\ pres = ParsePending
  /\ gres = <<>>
  /\ Idle

\* a call that entered the loop runs to its end: the loop is not suspended
SpecScanFair == InitScanFair /\ [][NextScan]_vars /\ WF_vars(LoopIteration \/ ReturnSpec)

(***************************************************************************)
(* Properties                                                              *)
(***************************************************************************)
Validated == vres.status # "pending"
Parsed == pres.status # "pending"
Errors == vres.result.errors
Warnings == vres.result.warnings
Range(seq) == {seq[i] : i \in 1..Len(seq)}
Count(seq, m) == Cardinality({i \in 1..Len(seq) : seq[i] = m})

\* the extension of a file name, stated from the position of its last '.'
LastDot(f) == IF Positions(f, ".") = {} THEN 0
              ELSE CHOOSE i \in Positions(f, ".") : \A j \in Positions(f, ".") : j <= i
ExtOf(f) == [i \in 1..(Len(f) - LastDot(f)) |-> LowerOf(f[LastDot(f) + i])]
YamlHint == ExtOf(filename) \in {<<"y", "a", "m", "l">>, <<"y", "m", "l">>}
MdHint == ExtOf(filename) = <<"m", "d">>
Doc == content.yaml.value

\* C1: validate returns a ValidationResult {valid, errors, warnings} and never throws,
\* whatever the content and the hint are: a decoding failure, a non-mapping document,
\* a null entry or a non-list requirements / test_cases value included.
C1_ValidateNeverThrows ==
  Validated =>
    /\ vres.status = "returned"
    /\ vres.error = NoError
    /\ vres.result.exc = NoError
    /\ vres.result.valid \in BOOLEAN
    /\ DOMAIN Errors = 1..Len(Errors)
    /\ DOMAIN Warnings = 1..Len(Warnings)

\* a mapping with a null requirement entry and a non-list test_cases has been validated
C1_Witness ==
  /\ Validated /\ YamlHint /\ ~content.yaml.threw /\ Doc.t = "map"
  /\ Doc.requirements.t = "map"
  /\ \E i \in 1..Len(Doc.requirements.functional.items) :
       Doc.requirements.functional.items[i].t = "null"
  /\ Doc.test_cases.t = "number"

\* C2: when YAML decoding fails, parse throws an error carrying the decoder's message,
\* and validate returns valid = false with the error 'Invalid YAML: <decoder message>'.
C2_DecodeFailure ==
  (YamlHint /\ content.yaml.threw) =>
    /\ Parsed => /\ pres.status = "threw"
                 /\ pres.error = <<"Failed to parse YAML: ", <<content.yaml.message>>, "">>
    /\ Validated => /\ vres.status = "returned"
                    /\ vres.result.valid = FALSE
                    /\ <<"Invalid YAML: ", <<content.yaml.message>>, "">> \in Range(Errors)

\* both calls were made on a content the decoder rejects
C2_Witness ==
  /\ YamlHint /\ content.yaml.threw /\ Parsed /\ Validated
  /\ pres.status = "threw" /\ vres.status = "returned"

\* C3: parse throws 'Unsupported file format: <ext>' exactly when the extension is none
\* of yaml, yml, md; yaml and yml take the YAML path and md the Markdown path.
C3_ParseFormat ==
  Parsed =>
    LET ext == ExtOf(filename)
        formatError == pres.status = "threw" /\ pres.error[1] = "Unsupported file format: "
    IN /\ formatError <=> ext \notin {<<"y", "a", "m", "l">>, <<"y", "m", "l">>, <<"m", "d">>}
       /\ formatError => pres.error = <<"Unsupported file format: ", ext, "">>
       /\ YamlHint => /\ pres.path = "yaml"
                      /\ IF content.yaml.threw THEN pres.status = "threw"
                         ELSE pres.status = "returned" /\ pres.value = content.yaml.value
       /\ MdHint => /\ pres.path = "md"
                    /\ pres.status = "returned"
                    /\ pres.value = parseMarkdown(content)

\* parse was called with yaml.txt, whose extension is txt, and threw
C3_Witness ==
  /\ Parsed /\ filename = <<"y", "a", "m", "l", ".", "t", "x", "t">>
  /\ pres.status = "threw" /\ pres.error[2] = <<"t", "x", "t">>

\* C4: validate with an unsupported extension returns valid = false, exactly the error
\* 'Unsupported file format: <ext>' and no warnings; it reports the format as
\* unsupported for exactly the hints for which parse throws its format error.
C4_ValidateFormat ==
  LET ext == ExtOf(filename)
      reported == \E i \in 1..Len(Errors) : Errors[i][1] = "Unsupported file format: "
  IN /\ (Validated /\ ~YamlHint /\ ~MdHint) =>
          /\ vres.status = "returned"
          /\ vres.result.valid = FALSE
          /\ Errors = << <<"Unsupported file format: ", ext, "">> >>
          /\ Warnings = <<>>
     /\ (Validated /\ Parsed) =>
          (reported <=> (pres.status = "threw" /\ pres.error[1] = "Unsupported file format: "))

\* both calls were made with a file name that ends in its dot, so that the extension is empty
C4_Witness ==
  /\ Validated /\ Parsed /\ filename = <<"a", ".">>
  /\ Errors = << <<"Unsupported file format: ", <<>>, "">> >>

\* an entry that is a mapping with a non-empty id
HasId(e) == e.t = "map" /\ e.id # Undefined /\ e.id # <<>>
AllHaveIds(items) == \A i \in 1..Len(items) : HasId(items[i])
AllMappings(items) == \A i \in 1..Len(items) : items[i].t = "map"
UniqueIds(items) == \A i, j \in 1..Len(items) : i # j => items[i].id # items[j].id
Listed(v) == v.t \in {"undefined", "list"}
\* the entries of both buckets, functional first
BothBuckets == Doc.requirements.functional.items \o Doc.requirements.non_functional.items

\* a validated YAML document that decoded to a mapping
ValidatedMapping == Validated /\ YamlHint /\ ~content.yaml.threw /\ Doc.t = "map"

\* a non-empty name and a functional list of entries with unique, non-empty ids
NamedWithUniqueFunctionalIds ==
  /\ Doc.name # Undefined /\ Doc.name # <<>>
  /\ Doc.requirements.t = "map"
  /\ Doc.requirements.functional.t = "list"
  /\ AllHaveIds(Doc.requirements.functional.items)
  /\ UniqueIds(Doc.requirements.functional.items)

\* C5 as stated: a mapping with a non-empty name and a functional list of entries with
\* unique, non-empty ids is valid and has no errors, whatever its other fields contain
\* (here: whatever the entries of non_functional and of test_cases are, these two fields
\* being absent or lists of mappings).
C5_Original ==
  ( /\ ValidatedMapping /\ NamedWithUniqueFunctionalIds
    /\ Listed(Doc.requirements.non_functional)
    /\ AllMappings(Doc.requirements.non_functional.items)
    /\ Listed(Doc.test_cases) /\ AllMappings(Doc.test_cases.items) ) =>
    (vres.result.valid = TRUE /\ Errors = <<>>)

\* C5 as amended: such a document is valid and has no errors provided non_functional is
\* absent or a list of entries with non-empty ids, no id occurs twice in functional ++
\* non_functional, and test_cases is absent or a list of mappings with non-empty ids;
\* description and the test cases' description and expected_result are free.
C5_ValidWhenWellFormed ==
  ( /\ ValidatedMapping /\ NamedWithUniqueFunctionalIds
    /\ Listed(Doc.requirements.non_functional)
    /\ AllHaveIds(BothBuckets) /\ UniqueIds(BothBuckets)
    /\ Listed(Doc.test_cases)
    /\ AllHaveIds(Doc.test_cases.items) ) =>
    (vres.result.valid = TRUE /\ Errors = <<>>)

\* a well-formed document with entries in both buckets and a test case without a
\* description has been validated: warnings, no errors
C5_Witness ==
  /\ ValidatedMapping /\ NamedWithUniqueFunctionalIds
  /\ Listed(Doc.requirements.non_functional)
  /\ AllHaveIds(BothBuckets) /\ UniqueIds(BothBuckets)
  /\ Listed(Doc.test_cases) /\ AllHaveIds(Doc.test_cases.items)
  /\ Len(Doc.requirements.functional.items) > 0
  /\ Len(Doc.requirements.non_functional.items) > 0
  /\ Len(Doc.test_cases.items) > 0
  /\ Doc.description = Undefined
  /\ Warnings # <<>> /\ vres.result.valid = TRUE

C7_MissingName ==
  (Validated /\ YamlHint /\ ~content.yaml.threw) =>
    /\ (Doc.t # "map" \/ Doc.name = Undefined \/ Doc.name = <<>>) =>
         /\ <<"Missing required field: name", <<>>, "">> \in Range(Errors)
         /\ vres.result.valid = FALSE
    /\ ( /\ Doc.t = "map" /\ NamedWithUniqueFunctionalIds
         /\ Listed(Doc.requirements.non_functional)
         /\ AllHaveIds(BothBuckets) /\ UniqueIds(BothBuckets)
         /\ Listed(Doc.test_cases) /\ AllHaveIds(Doc.test_cases.items)
         /\ Doc.description = Undefined ) =>
         /\ <<"Missing description field", <<>>, "">> \in Range(Warnings)
         /\ vres.result.valid = TRUE

\* the text of a zero-based position
IndexText(i) == <<"0", "1", "2", "3", "4", "5", "6", "7", "8", "9">>[i + 1]

MarkdownWarnings ==
  {<<"Missing recommended section: ", SectionOverview, "">>,
   <<"Missing recommended section: ", SectionRequirements, "">>,
   <<"Missing recommended section: ", SectionTestCases, "">>,
   <<"Specification seems incomplete (very short)", <<>>, "">>,
   <<"No functional requirements found", <<>>, "">>,
   <<"No test cases found", <<>>, "">>}

\* C9: validate with an md hint never sets valid = false and never adds an error; every
\* finding is one of the six warnings.
C9_MarkdownNeverInvalid ==
  (Validated /\ MdHint) =>
    /\ vres.status = "returned"
    /\ vres.result.valid = TRUE
    /\ Errors = <<>>
    /\ Range(Warnings) \subseteq MarkdownWarnings

\* a Markdown content with all six findings has been validated
C9_Witness ==
  /\ Validated /\ MdHint /\ Range(Warnings) = MarkdownWarnings
  /\ vres.result.valid = TRUE

\* C10: validate with an md hint includes the warning 'Specification seems incomplete
\* (very short)' exactly when the content has fewer than 100 characters.
C10_ShortWarning ==
  (Validated /\ MdHint) =>
    (<<"Specification seems incomplete (very short)", <<>>, "">> \in Range(Warnings)
       <=> Len(content.text) < 100)

\* a content of 99 characters with a section and both markers has the warning
C10_Witness ==
  /\ Validated /\ MdHint /\ Len(content.text) = 99
  /\ Includes(content.text, SectionOverview)
  /\ <<"No functional requirements found", <<>>, "">> \notin Range(Warnings)
  /\ <<"No test cases found", <<>>, "">> \notin Range(Warnings)
  /\ <<"Specification seems incomplete (very short)", <<>>, "">> \in Range(Warnings)

(***************************************************************************)
(* Markdown parsing                                                        *)
(***************************************************************************)
ParsedMarkdown == pres.status = "returned" /\ pres.path = "md"
MdLines == Split(content.text, "\n")
Functional == pres.value.requirements.functional
TestCases == pres.value.test_cases

\* the name of the section the i-th of the lines is in: the last '## ' line up to it,
\* that line included
HeaderLines(lines, i) == {j \in 1..i : StartsWith(lines[j], <<"#", "#", " ">>)}
SectionAt(lines, i) ==
  LET headers == HeaderLines(lines, i) IN
  IF headers = {} THEN <<>>
  ELSE LET j == CHOOSE x \in headers : \A y \in headers : y <= x
       IN toLowerCase(Trim(SubSeq(lines[j], 4, Len(lines[j]))))
InFunctionalSection(lines, i) ==
  Includes(SectionAt(lines, i), <<"f", "u", "n", "c", "t", "i", "o", "n", "a", "l", " ",
                                  "r", "e", "q", "u", "i", "r", "e", "m", "e", "n", "t">>)

\* the requirement lines of the documents, as <<id, description>>
RequirementOfLine(line) ==
  IF line = LineFR THEN <<<<"F", "R", "-", "1">>, <<"A", "d", "d">>>>
  ELSE IF line = LineFRSecond THEN <<<<"F", "R", "-", "0", "2">>, <<"b", " ", "c">>>>
  ELSE IF line = TestLineFR
  THEN <<<<"F", "R", "-", "0", "0", "1">>,
         <<"A", "d", "d", " ", "t", "w", "o", " ", "n", "u", "m", "b", "e", "r", "s">>>>
  ELSE <<>>
RequirementLinesOf(lines) ==
  {i \in 1..Len(lines) : RequirementOfLine(lines[i]) # <<>> /\ InFunctionalSection(lines, i)}
Nth(S, k) == CHOOSE x \in S : Cardinality({y \in S : y <= x}) = k
NoPriorityLine(lines) ==
  \A i \in 1..Len(lines) :
     ~Includes(lines[i], <<"*", "*", "P", "r", "i", "o", "r", "i", "t", "y", "*", "*", ":">>)

\* C11: a Markdown parse appends one requirement per line `**FR-<digits>**: <text>` of a
\* section whose name contains 'functional requirement', in line order, with id
\* 'FR-<digits>', description <text>, status 'planned' and (while no Priority line
\* changes it) priority 'medium'; lines of other sections append none; the test
\* document yields one requirement FR-001 of priority 'high' and one test case TC-001
C11_RequirementLines ==
  ParsedMarkdown =>
    LET lines == MdLines
        reqs == RequirementLinesOf(lines)
        unset == NoPriorityLine(lines)
    IN /\ Len(Functional) = Cardinality(reqs)
       /\ \A k \in 1..Len(Functional) :
            LET line == lines[Nth(reqs, k)] IN
            /\ Functional[k].id = RequirementOfLine(line)[1]
            /\ Functional[k].description = RequirementOfLine(line)[2]
            /\ Functional[k].status = <<"p", "l", "a", "n", "n", "e", "d">>
            /\ unset => Functional[k].priority = <<"m", "e", "d", "i", "u", "m">>
       /\ content.text = TestMarkdown =>
            /\ Len(Functional) = 1 /\ Len(TestCases) = 1
            /\ Functional[1].id = <<"F", "R", "-", "0", "0", "1">>
            /\ Functional[1].priority = <<"h", "i", "g", "h">>
            /\ TestCases[1].id = <<"T", "C", "-", "0", "0", "1">>

\* two requirement lines of a functional section, the second number first, parsed
C11_Witness ==
  /\ ParsedMarkdown
  /\ MdLines = <<LineFunctional, LineFRSecond, LineFR>>
  /\ Len(Functional) = 2
  /\ Functional[1].id = <<"F", "R", "-", "0", "2">>
  /\ Functional[2].id = <<"F", "R", "-", "1">>

(***************************************************************************)
(* Generation                                                              *)
(***************************************************************************)
Generated == gres # <<>>
Calls == {gres[i] : i \in 1..Len(gres)}
Object == ParsedObject
FunctionalOf(o) == ReqsProp(o).functional
StoriesOf(o) == ListProp(o, "user_stories")
CasesOf(o) == ListProp(o, "test_cases")
Absent(v) == v.t = "undefined"
ItemsOf(v) == IF v.t = "list" THEN v.items ELSE <<>>
ListOfMappings(v) == Absent(v) \/ (v.t = "list" /\ \A i \in 1..Len(v.items) : v.items[i].t = "map")

\* a Specification: a mapping whose collections are absent or lists of mappings
IsSpecification ==
  /\ Object.t = "map"
  /\ ReqsProp(Object).t \in {"undefined", "map"}
  /\ ListOfMappings(FunctionalOf(Object))
  /\ ListOfMappings(StoriesOf(Object))
  /\ ListOfMappings(CasesOf(Object))

HeadingFunctional ==
  <<"d", "e", "s", "c", "r", "i", "b", "e", "(", "'", "F", "u", "n", "c", "t", "i", "o", "n", "a", "l", " ", "R", "e", "q", "u", "i", "r", "e", "m", "e", "n", "t", "s", "'">>
HeadingUserStories ==
  <<"d", "e", "s", "c", "r", "i", "b", "e", "(", "'", "U", "s", "e", "r", " ", "S", "t", "o", "r", "i", "e", "s", "'">>
HeadingTestCases ==
  <<"d", "e", "s", "c", "r", "i", "b", "e", "(", "'", "T", "e", "s", "t", " ", "C", "a", "s", "e", "s", "'">>
TestEntry == <<"t", "e", "s", "t", "(", "'">>

\* C12: generate returns a text for every Specification, whichever of requirements,
\* requirements.functional, user_stories, test_cases and the items' fields are absent;
\* an absent collection contributes no group and no test entry
C12_GenerateNeverFails ==
  Generated /\ IsSpecification =>
    \A call \in Calls :
       /\ call.status = "returned"
       /\ Absent(FunctionalOf(Object)) => ~Includes(call.output, HeadingFunctional)
       /\ Absent(StoriesOf(Object)) => ~Includes(call.output, HeadingUserStories)
       /\ Absent(CasesOf(Object)) => ~Includes(call.output, HeadingTestCases)
       /\ (Absent(FunctionalOf(Object)) /\ Absent(StoriesOf(Object)) /\ Absent(CasesOf(Object)))
            => ~Includes(call.output, TestEntry)

\* a text was generated for a named object without requirements, user stories and
\* test cases
C12_Witness ==
  /\ Generated /\ IsSpecification
  /\ Object.name = NameN
  /\ Absent(ReqsProp(Object)) /\ Absent(StoriesOf(Object)) /\ Absent(CasesOf(Object))
  /\ gres[1].status = "returned"
  /\ Includes(gres[1].output, <<"d", "e", "s", "c", "r", "i", "b", "e", "(", "'", "c", "a", "l", "c", "'">>)

\* C13: each of the groups 'Functional Requirements', 'User Stories' and 'Test Cases' is
\* in the generated text if and only if its collection has an element
C13_GroupIffNonEmpty ==
  Generated /\ IsSpecification =>
    \A call \in Calls :
       call.status = "returned" =>
         /\ Includes(call.output, HeadingFunctional) <=> Len(ItemsOf(FunctionalOf(Object))) > 0
         /\ Includes(call.output, HeadingUserStories) <=> Len(ItemsOf(StoriesOf(Object))) > 0
         /\ Includes(call.output, HeadingTestCases) <=> Len(ItemsOf(CasesOf(Object))) > 0

\* the lines of a generated text: where they start, and the line that starts at i
LineStarts(out) == ({1} \cup {i + 1 : i \in Positions(out, "\n")}) \cap (1..Len(out))
LineAt(out, i) ==
  LET ends == {j \in i..Len(out) : out[j] = "\n"}
  IN SubSeq(out, i, (CHOOSE j \in ends : \A e \in ends : j <= e) - 1)
LinesWith(out, S) == [k \in 1..Cardinality(S) |-> LineAt(out, Nth(S, k))]
TestStarts(out) == {i \in LineStarts(out) : At(out, i, <<" ", " ", " ", " ", "t", "e", "s", "t", "(", "'">>)}
StepStarts(out) ==
  {i \in LineStarts(out) : At(out, i, <<" ", " ", " ", " ", " ", " ", "/", "/", " ">>) /\ i + 9 <= Len(out) /\ IsDigit(out[i + 9])}
HeadingStart(out, heading) == CHOOSE i \in LineStarts(out) : At(out, i + 2, heading)

\* the title lines and step lines a Specification calls for
Shown(v) == IF v = Undefined THEN <<"u", "n", "d", "e", "f", "i", "n", "e", "d">> ELSE v
TitleLine(title) == <<" ", " ", " ", " ", "t", "e", "s", "t", "(", "'">> \o title \o <<"'", ",", " ", "(", ")", " ", "=", ">", " ", "{">>
ItemTitle(item) == Shown(Prop(item, "id")) \o <<":", " ">> \o Shown(Prop(item, "description"))
StoryTitle(story) ==
  (IF Falsy(Prop(story, "id")) THEN <<"U", "s", "e", "r", " ", "S", "t", "o", "r", "y">> ELSE story.id)
  \o <<":", " ", "A", "s", " ", "a", " ">> \o Shown(Prop(story, "as_a")) \o <<",", " ", "I", " ", "w", "a", "n", "t", " ">> \o Shown(Prop(story, "i_want"))
ExpectedTestLines(o) ==
  LET f == ItemsOf(FunctionalOf(o))
      u == ItemsOf(StoriesOf(o))
      c == ItemsOf(CasesOf(o))
  IN [k \in 1..Len(f) |-> TitleLine(ItemTitle(f[k]))]
     \o [k \in 1..Len(u) |-> TitleLine(StoryTitle(u[k]))]
     \o [k \in 1..Len(c) |-> TitleLine(ItemTitle(c[k]))]
StepLine(k, step) == <<" ", " ", " ", " ", " ", " ", "/", "/", " ">> \o <<IndexText(k)>> \o <<".", " ">> \o step
StepLinesOf(tc) ==
  LET steps == ItemsOf(ListProp(tc, "steps")) IN [k \in 1..Len(steps) |-> StepLine(k, steps[k])]
RECURSIVE ExpectedStepLines(_, _)
ExpectedStepLines(cases, n) ==
  IF n = 0 THEN <<>> ELSE ExpectedStepLines(cases, n - 1) \o StepLinesOf(cases[n])

\* C14: the generated text has one test entry per element of requirements.functional,
\* user_stories and test_cases (none for non_functional), in array order within a group,
\* the groups in the order Functional Requirements, User Stories, Test Cases, an element
\* that occurs k times emitted k times; the steps of a test case are numbered 1..n in order
C14_EntriesInOrder ==
  Generated /\ IsSpecification =>
    \A call \in Calls :
       LET out == call.output
           nf == Len(ItemsOf(FunctionalOf(Object)))
           nu == Len(ItemsOf(StoriesOf(Object)))
           nc == Len(ItemsOf(CasesOf(Object)))
           start(k) == Nth(TestStarts(out), k)
       IN call.status = "returned" =>
            /\ LinesWith(out, TestStarts(out)) = ExpectedTestLines(Object)
            /\ nf > 0 => HeadingStart(out, HeadingFunctional) < start(1)
            /\ nu > 0 => /\ HeadingStart(out, HeadingUserStories) < start(nf + 1)
                          /\ nf > 0 => start(nf) < HeadingStart(out, HeadingUserStories)
            /\ nc > 0 => /\ HeadingStart(out, HeadingTestCases) < start(nf + nu + 1)
                          /\ nf + nu > 0 => start(nf + nu) < HeadingStart(out, HeadingTestCases)
            /\ LinesWith(out, StepStarts(out)) = ExpectedStepLines(ItemsOf(CasesOf(Object)), nc)

\* a text generated from a requirement listed twice and a test case of three steps
C14_Witness ==
  /\ Generated /\ IsSpecification /\ gres[1].status = "returned"
  /\ Len(ItemsOf(FunctionalOf(Object))) = 2
  /\ FunctionalOf(Object).items[1] = FunctionalOf(Object).items[2]
  /\ Len(ItemsOf(CasesOf(Object))) = 1
  /\ Len(ItemsOf(ListProp(CasesOf(Object).items[1], "steps"))) = 3
  /\ Cardinality(TestStarts(gres[1].output)) = 3
  /\ Cardinality(StepStarts(gres[1].output)) = 3

\* the text before the outer group, its opening line for a name, and its closing line
TextBeforeGroups ==
  <<"/", "/", " ", "A", "u", "t", "o", "-", "g", "e", "n", "e", "r", "a", "t", "e", "d", " ", "t", "e", "s", "t", "s", " ", "f", "r", "o", "m", " ", "s", "p", "e", "c", "i", "f", "i", "c", "a", "t", "i", "o", "n", "\n">>
  \o <<"/", "/", " ", "D", "O", " ", "N", "O", "T", " ", "E", "D", "I", "T", ":", " ", "T", "h", "i", "s", " ", "f", "i", "l", "e", " ", "w", "a", "s", " ", "g", "e", "n", "e", "r", "a", "t", "e", "d", " ", "f", "r", "o", "m", " ", "t", "h", "e", " ", "s", "p", "e", "c", "i", "f", "i", "c", "a", "t", "i", "o", "n", "\n", "\n">>
OuterOpen(name) == <<"d", "e", "s", "c", "r", "i", "b", "e", "(", "'">> \o name \o <<"'", ",", " ", "(", ")", " ", "=", ">", " ", "{", "\n">>
OuterClose == <<"}", ")", ";", "\n">>
OuterStarts(out) == {i \in LineStarts(out) : At(out, i, <<"d", "e", "s", "c", "r", "i", "b", "e", "(">>)}
InnerStarts(out) == {i \in LineStarts(out) : At(out, i, <<" ", " ", "d", "e", "s", "c", "r", "i", "b", "e", "(">>)}

\* C15: the generated text has exactly one outer group, which encloses every inner
\* group; it is named after spec.name, and 'Application' when the name is empty or absent
C15_OuterGroup ==
  Generated =>
    \A call \in Calls :
       LET out == call.output
           name == Prop(Object, "name")
           title == IF name = Undefined \/ name = <<>>
                    THEN <<"A", "p", "p", "l", "i", "c", "a", "t", "i", "o", "n">>
                    ELSE name
           first == Len(TextBeforeGroups) + 1
           last == Len(out) - Len(OuterClose) + 1
       IN call.status = "returned" =>
            /\ At(out, 1, TextBeforeGroups)
            /\ At(out, first, OuterOpen(title))
            /\ OuterStarts(out) = {first}
            /\ At(out, last, OuterClose)
            /\ {i \in LineStarts(out) : At(out, i, OuterClose)} = {last}
            /\ \A i \in InnerStarts(out) : first < i /\ i < last

\* a text generated from an object with an empty name and a functional requirement
C15_Witness ==
  /\ Generated /\ gres[1].status = "returned"
  /\ Object.name = <<>>
  /\ Len(ItemsOf(FunctionalOf(Object))) > 0
  /\ Includes(gres[1].output, OuterOpen(<<"A", "p", "p", "l", "i", "c", "a", "t", "i", "o", "n">>))
  /\ InnerStarts(gres[1].output) # {}

\* the single quotes of a line that no backslash escapes, where its comment starts, and
\* whether a string literal is still open at its end
BackslashRun(line, i) == {j \in 1..(i - 1) : \A k \in j..(i - 1) : line[k] = "\\"}
Unescaped(line, i) == Cardinality(BackslashRun(line, i)) % 2 = 0
QuotesOf(line) == {i \in 1..Len(line) : line[i] = "'" /\ Unescaped(line, i)}
InLiteral(line, i) == Cardinality({q \in QuotesOf(line) : q < i}) % 2 = 1
CommentStart(line) ==
  LET starts == {i \in 1..Len(line) : At(line, i, <<"/", "/">>) /\ ~InLiteral(line, i)}
  IN IF starts = {} THEN Len(line) + 1 ELSE CHOOSE i \in starts : \A j \in starts : i <= j
OpenLiteral(line) == InLiteral(line, CommentStart(line))

\* C16: the generated text is valid code whatever characters the fields hold: in
\* particular no line leaves a single-quoted string literal open, which is a syntax error
C16_ValidCode ==
  Generated /\ IsSpecification =>
    \A call \in Calls :
       call.status = "returned" =>
         \A i \in LineStarts(call.output) : ~OpenLiteral(LineAt(call.output, i))

GroupOpenings(out, name) ==
  {p \in 1..Len(out) : At(out, p, <<"d", "e", "s", "c", "r", "i", "b", "e", "(", "'">> \o name \o <<"'">>)}
TitledTests(out, id, description) ==
  {q \in 1..Len(out) : At(out, q, <<"t", "e", "s", "t", "(", "'">> \o id \o <<":", " ">> \o description \o <<"'">>)}
NamedYamlSpecification ==
  /\ pres.status = "returned" /\ pres.path = "yaml"
  /\ IsSpecification
  /\ Doc.name # Undefined /\ Doc.name # <<>>

\* C18: for a YAML document with a name and functional requirements, parse returns an
\* object of that name and the text generated from it holds, inside describe('<name>',
\* a test titled '<id>: <description>' for every requirement that has an id and a
\* description, the two verbatim; so for 'calculator' and FR-001 'Add numbers'
C18_YamlRoundTrip ==
  NamedYamlSpecification =>
    /\ pres.value.name = Doc.name
    /\ \A call \in Calls :
         /\ call.status = "returned"
         /\ \A k \in 1..Len(ItemsOf(FunctionalOf(Doc))) :
              LET req == FunctionalOf(Doc).items[k] IN
              (Prop(req, "id") # Undefined /\ Prop(req, "description") # Undefined) =>
                \E p \in GroupOpenings(call.output, Doc.name) :
                   \E q \in TitledTests(call.output, req.id, req.description) : p < q
         /\ content = CalculatorContent =>
              /\ Includes(call.output, <<"d", "e", "s", "c", "r", "i", "b", "e", "(", "'", "c", "a", "l", "c", "u", "l", "a", "t", "o", "r", "'">>)
              /\ Includes(call.output, <<"t", "e", "s", "t", "(", "'", "F", "R", "-", "0", "0", "1", ":", " ", "A", "d", "d", " ", "n", "u", "m", "b", "e", "r", "s", "'">>)

\* the text generated from the calculator document of the parser's test
C18_Witness ==
  /\ NamedYamlSpecification /\ Generated
  /\ content.text = CalculatorText
  /\ pres.value.name = <<"c", "a", "l", "c", "u", "l", "a", "t", "o", "r">>
  /\ gres[1].status = "returned"
  /\ TitledTests(gres[1].output, <<"F", "R", "-", "0", "0", "1">>,
                  <<"A", "d", "d", " ", "n", "u", "m", "b", "e", "r", "s">>) # {}

\* C19: whatever a Markdown content holds, parse returns an object with an empty name,
\* an empty description, no user stories and no non-functional requirements, so the
\* text generated from it names the outer group 'Application' and has no 'User Stories'
\* group
C19_MarkdownFields ==
  ParsedMarkdown =>
    /\ pres.value.name = <<>>
    /\ pres.value.description = <<>>
    /\ pres.value.user_stories = <<>>
    /\ pres.value.requirements.non_functional = <<>>
    /\ \A call \in Calls :
         /\ call.status = "returned"
         /\ At(call.output, Len(TextBeforeGroups) + 1,
               OuterOpen(<<"A", "p", "p", "l", "i", "c", "a", "t", "i", "o", "n">>))
         /\ \A i \in InnerStarts(call.output) : ~At(call.output, i + 2, HeadingUserStories)

\* the text generated from a Markdown document with a Name line, a 'User Stories'
\* section and a story in it
C19_Witness ==
  /\ ParsedMarkdown /\ Generated
  /\ MdLines = <<LineName, LineUserStories, LineStory>>
  /\ gres[1].status = "returned"
  /\ ~Includes(gres[1].output, HeadingUserStories)

\* the Priority lines that follow the k-th requirement line before the next requirement
\* line and the next section header, and the text after the marker's colon, trimmed,
\* lower-cased and cut at the first '/'
PriorityMarker == <<"*", "*", "P", "r", "i", "o", "r", "i", "t", "y", "*", "*", ":">>
HasPriorityMarker(line) == Includes(line, PriorityMarker)
PriorityLinesOf(lines, reqs, k) ==
  LET from == Nth(reqs, k)
      to == IF k < Cardinality(reqs) THEN Nth(reqs, k + 1) ELSE Len(lines) + 1
  IN {j \in (from + 1)..(to - 1) :
        /\ HasPriorityMarker(lines[j])
        /\ HeaderLines(lines, j) = HeaderLines(lines, from)}
AfterMarker(line) ==
  LET at == CHOOSE i \in 1..Len(line) :
              /\ At(line, i, PriorityMarker)
              /\ \A j \in 1..(i - 1) : ~At(line, j, PriorityMarker)
      value == toLowerCase(Trim(SubSeq(line, at + Len(PriorityMarker), Len(line))))
      cuts == {i \in 1..Len(value) : value[i] = "/"}
  IN IF cuts = {} THEN value
     ELSE SubSeq(value, 1, (CHOOSE i \in cuts : \A j \in cuts : i <= j) - 1)

\* C20: in a functional requirements section, a line containing '**Priority**:' sets the
\* priority of the requirement started last to the text after the marker's colon,
\* lower-cased and cut at the first '/'; the last such line before the next requirement
\* line wins, a requirement without such a line keeps 'medium', and a Priority line
\* before the first requirement line of the section changes nothing
C20_PriorityLines ==
  ParsedMarkdown =>
    LET lines == MdLines
        reqs == RequirementLinesOf(lines)
    IN Len(Functional) = Cardinality(reqs) =>
         \A k \in 1..Len(Functional) :
            LET marked == PriorityLinesOf(lines, reqs, k) IN
            IF marked = {}
            THEN Functional[k].priority = <<"m", "e", "d", "i", "u", "m">>
            ELSE LET last == CHOOSE j \in marked : \A i \in marked : i <= j
                 IN Functional[k].priority = AfterMarker(lines[last])

(***************************************************************************)
(* Validator and parser on the same content                                *)
(***************************************************************************)
BothReturned == vres.status = "returned" /\ pres.status = "returned"
Warned(text) == <<text, <<>>, "">> \in Range(Warnings)

\* C24: on a Markdown content, validate omits the warning 'No functional requirements
\* found' exactly when parse returns at least one functional requirement, and omits
\* 'No test cases found' exactly when parse returns at least one test case
C24_ParserValidatorAgree ==
  MdHint /\ BothReturned =>
    /\ ~Warned("No functional requirements found")
         <=> Len(pres.value.requirements.functional) >= 1
    /\ ~Warned("No test cases found") <=> Len(pres.value.test_cases) >= 1

\* C25: in every result validate returns, valid is false exactly when errors is not
\* empty, whatever the content, the file name and the warnings are
C25_ValidIffNoErrors ==
  Validated =>
    /\ vres.status = "returned"
    /\ vres.result.valid = FALSE <=> Len(Errors) > 0

\* results of each kind: two errors; warnings and no error; a caught exception
C25_Witness ==
  /\ Validated
  /\ \/ Len(Errors) >= 2 /\ Len(Warnings) >= 1 /\ ~vres.result.valid
     \/ Errors = <<>> /\ Len(Warnings) >= 3 /\ vres.result.valid /\ MdHint

(***************************************************************************)
(* The pipeline parse, then generate                                       *)
(***************************************************************************)
\* C26: whenever parse returns, on a YAML or a Markdown content, generate applied to
\* the value it returned returns a text and does not throw
C26_PipelineTotal ==
  pres.status = "returned" => \A call \in Calls : call.status = "returned"

\* C27: a call of generate leaves the object it was given as it was: every field,
\* collection and item of the parsed specification is the same after the call, so the
\* calls that follow receive the same object
C27_ArgumentUnchanged ==
  [][gres' # gres => pres' = pres /\ ParsedObject' = ParsedObject]_vars

\* generate returned twice on a specification with a list entry and no name
C27_Witness ==
  /\ Len(gres) = 2
  /\ gres[2].status = "returned"
  /\ Object.t = "map" /\ Falsy(Object.name)
  /\ Len(ItemsOf(FunctionalOf(Object))) + Len(ItemsOf(StoriesOf(Object)))
       + Len(ItemsOf(CasesOf(Object))) >= 1

(***************************************************************************)
(* Calls on shared instances                                               *)
(***************************************************************************)
CallsOf(op) == {i \in 1..Len(calls) : calls[i].op = op}

Exited == cli.status = "exited"

\* C29: the validate command ends with a non-zero status exactly when the file does
\* not exist, validation throws, or the result has valid = false (equivalently, errors
\* is not empty); a result with warnings and no error ends with status 0 and is
\* reported as valid
C29_ExitStatus ==
  Exited =>
    /\ cli.exit # 0 <=>
         \/ cli.file = "missing"
         \/ cli.report = "threw"
         \/ cli.file = "readable" /\ vres.result.valid = FALSE
    /\ cli.file = "readable" => (vres.result.valid = FALSE <=> Len(Errors) > 0)
    /\ cli.file = "readable" /\ Errors = <<>> => cli.exit = 0 /\ cli.report = "valid"
    /\ cli.report = "valid" => cli.exit = 0

\* the command ended on a file whose validation gave warnings and no error
C29_Witness ==
  /\ Exited /\ cli.file = "readable"
  /\ Errors = <<>> /\ Len(Warnings) >= 1
  /\ cli.exit = 0 /\ cli.report = "valid"

(***************************************************************************)
(* The loop of parseMarkdown                                               *)
(***************************************************************************)
\* an iteration of the loop, the line it processes and the scanner before and after it
Iteration == scan.phase = "loop" /\ scan'.phase = "loop" /\ scan'.i = scan.i + 1
IsHeader(line) == StartsWith(line, <<"#", "#", " ">>)
IsOtherHeading(line) ==
  StartsWith(line, <<"#", "#", "#", " ">>) \/ StartsWith(line, <<"#", " ">>)
HeaderText(line) == toLowerCase(Trim(SubSeq(line, 4, Len(line))))
IsMarkerLine(line) == FRMatch(line) # <<>> \/ TCMatch(line) # <<>>
NamesFunctional(section) ==
  Includes(section, <<"f", "u", "n", "c", "t", "i", "o", "n", "a", "l", " ",
                      "r", "e", "q", "u", "i", "r", "e", "m", "e", "n", "t">>)
NamesTestCase(section) == Includes(section, <<"t", "e", "s", "t", " ", "c", "a", "s", "e">>)
StartsItem(section, line) ==
  \/ NamesFunctional(section) /\ FRMatch(line) # <<>>
  \/ NamesTestCase(section) /\ TCMatch(line) # <<>>

\* the k-th line comes after a '## ' header with no marker line from the header on
NoMarkerSinceHeader(lines, k) ==
  \E h \in 1..k :
     /\ IsHeader(lines[h])
     /\ \A j \in h..k : ~IsMarkerLine(lines[j])

\* C21 as stated: after every line beginning with '## ' currentSection is the
\* lower-cased trimmed header text and currentItem is null; a line after the header and
\* before a marker line changes no item; a line beginning with '### ' or '# ' changes
\* neither currentSection nor currentItem
C21_SectionReset ==
  [][Iteration =>
       LET line == scan.lines[scan.i + 1] IN
       /\ IsHeader(line) =>
            /\ scan'.st.currentSection = HeaderText(line)
            /\ scan'.st.currentItem = NullItem
       /\ NoMarkerSinceHeader(scan.lines, scan.i + 1) => scan'.st.spec = scan.st.spec
       /\ IsOtherHeading(line) =>
            /\ scan'.st.currentSection = scan.st.currentSection
            /\ scan'.st.currentItem = scan.st.currentItem]_vars

\* C21: after every line beginning with '## ' currentSection is the lower-cased
\* trimmed header text, and currentItem is null unless the header line itself matches
\* the marker of its section and starts an item; a line after the header and before a
\* marker line changes no item; a line beginning with '### ' or '# ' never changes
\* currentSection, and changes currentItem only when it matches the marker of the
\* current section
C21_SectionResetUnlessMarker ==
  [][Iteration =>
       LET line == scan.lines[scan.i + 1] IN
       /\ IsHeader(line) =>
            /\ scan'.st.currentSection = HeaderText(line)
            /\ IF StartsItem(HeaderText(line), line)
               THEN scan'.st.currentItem # NullItem /\ scan'.st.spec # scan.st.spec
               ELSE scan'.st.currentItem = NullItem
       /\ NoMarkerSinceHeader(scan.lines, scan.i + 1) => scan'.st.spec = scan.st.spec
       /\ IsOtherHeading(line) =>
            /\ scan'.st.currentSection = scan.st.currentSection
            /\ ~StartsItem(scan.st.currentSection, line) =>
                 scan'.st.currentItem = scan.st.currentItem]_vars

\* a Priority line after a second header has left the requirement of the first
\* section at its priority
C21_Witness ==
  /\ scan.lines = <<LineFunctional, LineFR, LineFunctional, LinePriority>>
  /\ scan.i = 4
  /\ scan.st.currentItem = NullItem
  /\ scan.st.spec.requirements.functional[1].priority = <<"m", "e", "d", "i", "u", "m">>

\* the text after the first colon of a line, trimmed
TextAfterFirstColon(line) ==
  LET first == CHOOSE i \in Positions(line, ":") : \A j \in Positions(line, ":") : i <= j
  IN Trim(SubSeq(line, first + 1, Len(line)))
HasDescription(line) ==
  Includes(line, <<"*", "*", "D", "e", "s", "c", "r", "i", "p", "t", "i", "o", "n", "*", "*", ":">>)
HasExpectedResult(line) ==
  Includes(line, <<"*", "*", "E", "x", "p", "e", "c", "t", "e", "d", " ",
                   "R", "e", "s", "u", "l", "t", "*", "*", ":">>)

\* a test case was started on one of the lines from the last '## ' header to the k-th
TestCaseSinceHeader(lines, k) ==
  LET headers == HeaderLines(lines, k) IN
  /\ headers # {}
  /\ \E j \in (CHOOSE h \in headers : \A x \in headers : x <= h)..k : TCMatch(lines[j]) # <<>>

\* the test cases with the fields the line names set on the last of them
WithFields(cases, line) ==
  LET n == Len(cases)
      described == IF HasDescription(line)
                   THEN [cases EXCEPT ![n].description = TextAfterFirstColon(line)]
                   ELSE cases
  IN IF HasExpectedResult(line)
     THEN [described EXCEPT ![n].expected_result = TextAfterFirstColon(line)]
     ELSE described

\* C22: in a section whose name contains 'test case', a line matching
\* '**ID**: TC-<digits>' appends one test case {id, description '', steps [],
\* expected_result ''}; a later line containing '**Description**:' or
\* '**Expected Result**:' sets that field of the test case started last to the trimmed
\* text after the line's first colon and changes nothing else, and changes nothing at
\* all when no test case was started since the last '## ' header
C22_TestCaseLines ==
  [][Iteration /\ NamesTestCase(scan'.st.currentSection) =>
       LET line == scan.lines[scan.i + 1]
           before == scan.st.spec
           after == scan'.st.spec
       IN IF TCMatch(line) # <<>>
          THEN /\ Len(after.test_cases) = Len(before.test_cases) + 1
               /\ SubSeq(after.test_cases, 1, Len(before.test_cases)) = before.test_cases
               /\ LET new == after.test_cases[Len(after.test_cases)] IN
                  /\ new.id = <<"T", "C", "-">> \o TCMatch(line)[1]
                  /\ new.description = <<>> /\ new.steps = <<>> /\ new.expected_result = <<>>
          ELSE IF HasDescription(line) \/ HasExpectedResult(line)
          THEN IF TestCaseSinceHeader(scan.lines, scan.i)
               THEN after = [before EXCEPT !.test_cases = WithFields(@, line)]
               ELSE after = before
          ELSE TRUE]_vars

Returned == pres.status = "returned" /\ pres.path = "md"
StartsRequirement(lines, i) ==
  NamesFunctional(SectionAt(lines, i)) /\ FRMatch(lines[i]) # <<>>

\* C23: in the object a Markdown parse returns, every functional requirement has the
\* fields id, description, priority, status and no other, its description being the
\* text of its own FR line, and every test case has the fields id, description, steps,
\* expected_result and no other
C23_ItemFields ==
  Returned =>
    LET lines == scan.lines
        starts == {i \in 1..Len(lines) : StartsRequirement(lines, i)}
        functional == pres.value.requirements.functional
        cases == pres.value.test_cases
    IN /\ \A k \in 1..Len(functional) :
            /\ functional[k].steps = Undefined
            /\ functional[k].expected_result = Undefined
            /\ functional[k].priority # Undefined
            /\ functional[k].status # Undefined
            /\ functional[k].id # Undefined
            /\ k <= Cardinality(starts) /\ functional[k].description = FRMatch(lines[Nth(starts, k)])[2]
       /\ \A k \in 1..Len(cases) :
            /\ cases[k].priority = Undefined
            /\ cases[k].status = Undefined
            /\ cases[k].id # Undefined
            /\ cases[k].description # Undefined
            /\ cases[k].steps # Undefined
            /\ cases[k].expected_result # Undefined

====
